---- MODULE Spec2Model ----
(***************************************************************************)
(* A model of the BIT* vertex (ompl::geometric::BITstar::Vertex,           *)
(* Vertex.cpp): parent pointer, child back-references, incoming edge cost, *)
(* cost-to-come, depth and the pruned flag, with the cost/depth cascade of *)
(* updateCostAndDepth.  The build flag BITSTAR_DEBUG is part of the state: *)
(* it is chosen once, in Init, and decides whether the checks inside the   *)
(* #ifdef BITSTAR_DEBUG blocks are compiled in.                            *)
(***************************************************************************)
EXTENDS Integers, Sequences, FiniteSets, TLC

\* ------------------------------------------------------------------ bounds
MaxVertices == 3    \* how many vertices the planner constructs
MaxEdgeCost == 2    \* edge costs are drawn from 1..MaxEdgeCost
MaxCost     == 6    \* finite costs-to-come explored
MaxDepth    == 3    \* depths explored
MaxChildren == 2    \* length of a child list explored
MaxCalls    == 3    \* calls explored when the caller follows no discipline
MaxCascadeCalls == 5    \* calls explored when the caller keeps the cascade on
MaxPairedCalls  == 12   \* calls explored when the caller pairs its calls
MaxLifetimeCalls == 3   \* calls explored when the caller destroys vertices
MaxConstructCalls == 5  \* calls explored when the caller makes its vertices
MaxPairedAnyCalls == 6  \* calls explored when the caller pairs unchecked calls
MaxFlagCalls == 3       \* calls explored when the caller sets the flags
MaxStates   == 2    \* states put to the validity checker
MaxObstacleStates == 2  \* states of other robots that serve as obstacles
MaxObstacles == 2   \* dynamic obstacles held in the map at a time
MaxDist     == 3    \* longest distance from from to to, in steps of delta
MaxStepLen  == 3    \* longest move one projected step makes, in steps of delta
MaxCharts   == 3    \* charts the atlas grows to

Vertices  == 1..MaxVertices
EdgeCosts == 1..MaxEdgeCost

\* The empty shared_ptr (static_cast<bool>(parentSPtr_) is false).
NoVertex == 0

\* ------------------------------------------------------------ collaborators
\* CostHelper: the neutral cost, the absorbing cost and the combination.
identityCost == 0
infiniteCost == -1
combineCosts(a, b) ==
    IF a = infiniteCost \/ b = infiniteCost THEN infiniteCost ELSE a + b

\* The members' default initialisers of the class declaration.
InitialDepth  == 0
InitialPruned == FALSE
InitialNew    == TRUE
InitialExpanded == FALSE

VARIABLES
    debug,        \* TRUE iff the build defines BITSTAR_DEBUG
    nextId,       \* the id generator's next id
    made,         \* the vertices constructed so far
    vId_, isRoot_, parentSPtr_, edgeCost_, cost_, depth_, childWPtrs_,
    isPruned_,
    calls,        \* how many calls the caller has made
    raised,       \* TRUE once a call has thrown
    pending,      \* the calls the planner still owes to finish its operation
    lastOp,       \* the last call made on a vertex, and how it ended
    state_,       \* the state each vertex allocated, 0 before construction
    freeCalls,    \* per state allocated so far, the calls of freeState on it
    isNew_, hasBeenExpandedToSamples_, hasBeenExpandedToVertices_,
    \* ompl::base::StateValidityChecker
    dynObstacles_,    \* the map from time key to the obstacles stored there
    scalingFactor_,
    validStates,      \* the states the user's isValid(state) accepts
    conflicts,        \* the pairs the user's areStatesValid rejects
    freed,            \* the calls of freeState made so far: how often
                      \* each space information freed each state
    lastQuery,        \* the last isValid(state, time) since the map changed
    \* ompl::base::AtlasStateSpace
    charts_,          \* how many charts the atlas holds
    traversal         \* the followManifold call in progress, or the last one

fields == <<vId_, isRoot_, parentSPtr_, edgeCost_, cost_, depth_, childWPtrs_,
            isPruned_>>
vertexVars == <<debug, nextId, made, vId_, isRoot_, parentSPtr_, edgeCost_,
                cost_, depth_, childWPtrs_, isPruned_, calls, raised, pending,
                lastOp, state_, freeCalls, isNew_, hasBeenExpandedToSamples_,
                hasBeenExpandedToVertices_>>
flagVars == <<isNew_, hasBeenExpandedToSamples_, hasBeenExpandedToVertices_>>
checkerVars == <<dynObstacles_, scalingFactor_, validStates, conflicts, freed,
                 lastQuery>>
atlasVars == <<charts_, traversal>>
vars == <<debug, nextId, made, vId_, isRoot_, parentSPtr_, edgeCost_, cost_,
          depth_, childWPtrs_, isPruned_, calls, raised, pending, lastOp,
          dynObstacles_, scalingFactor_, validStates, conflicts, freed,
          lastQuery, charts_, traversal, state_, freeCalls, isNew_,
          hasBeenExpandedToSamples_, hasBeenExpandedToVertices_>>

\* The vertices' mutable members as one value, threaded through a call.
Heap == [parent   |-> parentSPtr_, edgeCost |-> edgeCost_, cost |-> cost_,
         depth    |-> depth_,      children |-> childWPtrs_,
         pruned   |-> isPruned_]

\* How a call ends: it returns ("ok"), it throws ompl::Exception ("throw"),
\* its recursion never returns and the call stack overflows ("overflow"), or
\* it calls a member function through the null pointer that lock() returns
\* for an expired child and the process dies ("crash").
\* trace: the runs of updateCostAndDepth the call made, in the order they
\* wrote their vertex's cost and depth.
Outcome(h, res, trace) == [h |-> h, res |-> res, trace |-> trace]

\* ---------------------------------------------------------------- queries
assertNotPruned(h, v) == debug /\ h.pruned[v]

\* getId: the id, unless the vertex is pruned in a debug build.
getIdThrows(h, v) == assertNotPruned(h, v)
getId(v) == vId_[v]

isRoot(v) == isRoot_[v]

hasParent(h, v) == h.parent[v] # NoVertex

isInTree(h, v) == isRoot(v) \/ hasParent(h, v)

hasChildren(h, v) == h.children[v] # << >>

\* getDepth without the check that the vertex is connected.
getDepthThrows_PrunedOnly(h, v) == assertNotPruned(h, v)

\* getDepth throws on a pruned vertex and on a disconnected one (debug).
getDepthThrows(h, v) ==
    assertNotPruned(h, v) \/ (debug /\ ~isRoot(v) /\ ~hasParent(h, v))

getCostThrows(h, v) == assertNotPruned(h, v)

\* What getDepth returns when it does not throw.
getDepth(h, v) == h.depth[v]

\* getParent without the check that the vertex has a parent.
getParentThrows_NoCheck(h, v) == assertNotPruned(h, v)

\* getParent, getParentConst and getEdgeInCost throw on a pruned vertex and
\* on one without a parent (debug).
getParentThrows(h, v) == assertNotPruned(h, v) \/ (debug /\ ~hasParent(h, v))

getEdgeInCostThrows(h, v) ==
    assertNotPruned(h, v) \/ (debug /\ ~hasParent(h, v))

isPruned(h, v) == h.pruned[v]

\* The public member functions that leave the parent, the children and the
\* pruned flag alone: the reads, and the writes of state_ and of the flags
\* isNew_, hasBeenExpandedToSamples_, hasBeenExpandedToVertices_.
Accessors ==
    {"getId", "stateConst", "state", "isRoot", "hasParent", "isInTree",
     "getDepth", "getParentConst", "getParent", "hasChildren",
     "getChildrenConst", "getChildren", "getCost", "getEdgeInCost",
     "isNew", "markNew", "markOld",
     "hasBeenExpandedToSamples", "markExpandedToSamples",
     "markUnexpandedToSamples",
     "hasBeenExpandedToVertices", "markExpandedToVertices",
     "markUnexpandedToVertices"}

\* A weak pointer to a destroyed vertex has expired.
expired(c) == c \notin made

\* getChildren without the check for expired weak pointers.
getChildrenThrows_NoExpiredCheck(h, v) == assertNotPruned(h, v)

\* getChildren and getChildrenConst throw on a pruned vertex and on meeting
\* an expired weak pointer (debug).
getChildrenThrows(h, v) ==
    \/ assertNotPruned(h, v)
    \/ debug /\ \E i \in 1..Len(h.children[v]) : expired(h.children[v][i])

\* What getChildren and getChildrenConst hand back when they do not throw:
\* the locked children, a null pointer (NoVertex) for an expired one.
getChildren(h, v) ==
    [i \in 1..Len(h.children[v]) |->
        IF expired(h.children[v][i]) THEN NoVertex ELSE h.children[v][i]]

\* Whether a call of the accessor on v throws.
Throws(accessor, h, v) ==
    CASE accessor = "getDepth"                       -> getDepthThrows(h, v)
      [] accessor \in {"getChildrenConst", "getChildren"}
                                                     -> getChildrenThrows(h, v)
      [] accessor \in {"getParentConst", "getParent"} -> getParentThrows(h, v)
      [] accessor = "getEdgeInCost"              -> getEdgeInCostThrows(h, v)
      [] accessor = "getCost"                        -> getCostThrows(h, v)
      [] OTHER                                       -> assertNotPruned(h, v)

\* ------------------------------------------------------ updateCostAndDepth
\* UpdateOwn that leaves a disconnected vertex's cost as it was.
UpdateOwn_KeepCost(h, v, cascadeUpdates) ==
    IF assertNotPruned(h, v)
    THEN [h |-> h, thrown |-> TRUE]
    ELSE IF isRoot(v)
    THEN [h |-> [h EXCEPT !.cost[v] = identityCost, !.depth[v] = 0],
          thrown |-> FALSE]
    ELSE IF ~hasParent(h, v)
    THEN [h |-> [h EXCEPT !.depth[v] = 0],
          thrown |-> debug /\ hasChildren(h, v) /\ cascadeUpdates]
    ELSE LET p  == h.parent[v]
             h1 == [h EXCEPT !.cost[v] = combineCosts(h.cost[p], h.edgeCost[v])]
         IN  IF getCostThrows(h, p)
             THEN [h |-> h, thrown |-> TRUE]
             ELSE IF getDepthThrows(h, p)
             THEN [h |-> h1, thrown |-> TRUE]
             ELSE [h |-> [h1 EXCEPT !.depth[v] = h1.depth[p] + 1],
                   thrown |-> FALSE]

\* UpdateOwn that takes the edge cost alone for the cost-to-come.
UpdateOwn_EdgeOnly(h, v, cascadeUpdates) ==
    IF assertNotPruned(h, v)
    THEN [h |-> h, thrown |-> TRUE]
    ELSE IF isRoot(v)
    THEN [h |-> [h EXCEPT !.cost[v] = identityCost, !.depth[v] = 0],
          thrown |-> FALSE]
    ELSE IF ~hasParent(h, v)
    THEN [h |-> [h EXCEPT !.cost[v] = infiniteCost, !.depth[v] = 0],
          thrown |-> debug /\ hasChildren(h, v) /\ cascadeUpdates]
    ELSE LET p  == h.parent[v]
             h1 == [h EXCEPT !.cost[v] = h.edgeCost[v]]
         IN  IF getCostThrows(h, p)
             THEN [h |-> h, thrown |-> TRUE]
             ELSE IF getDepthThrows(h, p)
             THEN [h |-> h1, thrown |-> TRUE]
             ELSE [h |-> [h1 EXCEPT !.depth[v] = h1.depth[p] + 1],
                   thrown |-> FALSE]

\* UpdateOwn with the parent's depth copied instead of incremented.
UpdateOwn_ParentDepth(h, v, cascadeUpdates) ==
    IF assertNotPruned(h, v)
    THEN [h |-> h, thrown |-> TRUE]
    ELSE IF isRoot(v)
    THEN [h |-> [h EXCEPT !.cost[v] = identityCost, !.depth[v] = 0],
          thrown |-> FALSE]
    ELSE IF ~hasParent(h, v)
    THEN [h |-> [h EXCEPT !.cost[v] = infiniteCost, !.depth[v] = 0],
          thrown |-> debug /\ hasChildren(h, v) /\ cascadeUpdates]
    ELSE LET p  == h.parent[v]
             h1 == [h EXCEPT !.cost[v] = combineCosts(h.cost[p], h.edgeCost[v])]
         IN  IF getCostThrows(h, p)
             THEN [h |-> h, thrown |-> TRUE]
             ELSE IF getDepthThrows(h, p)
             THEN [h |-> h1, thrown |-> TRUE]
             ELSE [h |-> [h1 EXCEPT !.depth[v] = h1.depth[p]],
                   thrown |-> FALSE]

\* The recomputation without the check that a vertex with no parent is not
\* asked to update its children.
UpdateOwn_NoDisconnectedCheck(h, v, cascadeUpdates) ==
    IF assertNotPruned(h, v)
    THEN [h |-> h, thrown |-> TRUE]
    ELSE IF isRoot(v)
    THEN [h |-> [h EXCEPT !.cost[v] = identityCost, !.depth[v] = 0],
          thrown |-> FALSE]
    ELSE IF ~hasParent(h, v)
    THEN [h |-> [h EXCEPT !.cost[v] = infiniteCost, !.depth[v] = 0],
          thrown |-> FALSE]
    ELSE LET p  == h.parent[v]
             h1 == [h EXCEPT !.cost[v] = combineCosts(h.cost[p], h.edgeCost[v])]
         IN  IF getCostThrows(h, p)
             THEN [h |-> h, thrown |-> TRUE]
             ELSE IF getDepthThrows(h, p)
             THEN [h |-> h1, thrown |-> TRUE]
             ELSE [h |-> [h1 EXCEPT !.depth[v] = h1.depth[p] + 1],
                   thrown |-> FALSE]

\* The vertex's own recomputation (the if / else if / else of the function).
UpdateOwn(h, v, cascadeUpdates) ==
    IF assertNotPruned(h, v)
    THEN [h |-> h, thrown |-> TRUE]
    ELSE IF isRoot(v)
    THEN [h |-> [h EXCEPT !.cost[v] = identityCost, !.depth[v] = 0],
          thrown |-> FALSE]
    ELSE IF ~hasParent(h, v)
    THEN [h |-> [h EXCEPT !.cost[v] = infiniteCost, !.depth[v] = 0],
          thrown |-> debug /\ hasChildren(h, v) /\ cascadeUpdates]
    ELSE LET p  == h.parent[v]
             h1 == [h EXCEPT !.cost[v] = combineCosts(h.cost[p], h.edgeCost[v])]
         IN  IF getCostThrows(h, p)
             THEN [h |-> h, thrown |-> TRUE]
             ELSE IF getDepthThrows(h, p)
             THEN [h |-> h1, thrown |-> TRUE]
             ELSE [h |-> [h1 EXCEPT !.depth[v] = h1.depth[p] + 1],
                   thrown |-> FALSE]

RECURSIVE updateCostAndDepth(_, _, _, _)
RECURSIVE CascadeChildren(_, _, _, _)

\* The loop over the children that tells no child to update.
CascadeChildren_Skip(r, v, i, stack) == r

\* The loop over the children that tells the vertex itself, not the child,
\* to update.
CascadeChildren_TellsSelf(r, v, i, stack) ==
    IF i > Len(r.h.children[v])
    THEN r
    ELSE IF expired(r.h.children[v][i])
    THEN [r EXCEPT !.res = IF debug THEN "throw" ELSE "crash"]
    ELSE LET r1 == updateCostAndDepth(r, v, TRUE, stack)
         IN  IF r1.res # "ok" THEN r1 ELSE CascadeChildren(r1, v, i + 1, stack)

\* The loop over the children without the check for expired weak pointers.
CascadeChildren_NoExpiredCheck(r, v, i, stack) ==
    IF i > Len(r.h.children[v])
    THEN r
    ELSE IF expired(r.h.children[v][i])
    THEN [r EXCEPT !.res = "crash"]
    ELSE LET r1 == updateCostAndDepth(r, r.h.children[v][i], TRUE, stack)
         IN  IF r1.res # "ok" THEN r1 ELSE CascadeChildren(r1, v, i + 1, stack)

\* What one run of updateCostAndDepth on v leaves in the trace: who told v to
\* update (NoVertex for the vertex the caller named) and what v then holds.
Visit(h, v, stack) ==
    [v     |-> v,
     from  |-> IF stack = << >> THEN NoVertex ELSE stack[Len(stack)],
     cost  |-> h.cost[v],
     depth |-> h.depth[v]]

OnStack(v, stack) == \E k \in 1..Len(stack) : stack[k] = v

\* updateCostAndDepth that tells the children to update before it recomputes
\* the vertex's own values.
updateCostAndDepth_ChildrenFirst(r, v, cascadeUpdates, stack) ==
    IF OnStack(v, stack)
    THEN [r EXCEPT !.res = "overflow"]
    ELSE LET rc == IF cascadeUpdates
                   THEN CascadeChildren(r, v, 1, Append(stack, v))
                   ELSE r
         IN  IF rc.res # "ok"
             THEN rc
             ELSE LET own == UpdateOwn(rc.h, v, cascadeUpdates)
                  IN  Outcome(own.h, IF own.thrown THEN "throw" ELSE "ok",
                              Append(rc.trace, Visit(own.h, v, stack)))

\* updateCostAndDepth that leaves the children alone when the vertex's own
\* cost comes out as it was.
updateCostAndDepth_SkipUnchanged(r, v, cascadeUpdates, stack) ==
    IF OnStack(v, stack)
    THEN [r EXCEPT !.res = "overflow"]
    ELSE LET own == UpdateOwn(r.h, v, cascadeUpdates)
             r1  == Outcome(own.h, IF own.thrown THEN "throw" ELSE "ok",
                            Append(r.trace, Visit(own.h, v, stack)))
         IN  IF own.thrown \/ ~cascadeUpdates \/ own.h.cost[v] = r.h.cost[v]
             THEN r1
             ELSE CascadeChildren(r1, v, 1, Append(stack, v))

\* stack: the vertices whose updateCostAndDepth is on the call stack, the
\* innermost last.  The conditions under which a visit throws depend only on
\* members the cascade does not write, so re-entering a vertex that is on the
\* stack repeats for ever.
updateCostAndDepth(r, v, cascadeUpdates, stack) ==
    IF OnStack(v, stack)
    THEN [r EXCEPT !.res = "overflow"]
    ELSE LET own == UpdateOwn(r.h, v, cascadeUpdates)
             r1  == Outcome(own.h, IF own.thrown THEN "throw" ELSE "ok",
                            Append(r.trace, Visit(own.h, v, stack)))
         IN  IF own.thrown \/ ~cascadeUpdates
             THEN r1
             ELSE CascadeChildren(r1, v, 1, Append(stack, v))

CascadeChildren(r, v, i, stack) ==
    IF i > Len(r.h.children[v])
    THEN r
    ELSE IF expired(r.h.children[v][i])
    THEN [r EXCEPT !.res = IF debug THEN "throw" ELSE "crash"]
    ELSE LET r1 == updateCostAndDepth(r, r.h.children[v][i], TRUE, stack)
         IN  IF r1.res # "ok" THEN r1 ELSE CascadeChildren(r1, v, i + 1, stack)

\* ---------------------------------------------------------------- mutators
\* addParent without the check that the vertex is not the root.
addParent_NoRootCheck(h, v, newParent, edgeInCost, updateChildCosts) ==
    IF assertNotPruned(h, v)
    THEN Outcome(h, "throw", << >>)
    ELSE IF debug /\ hasParent(h, v)
    THEN Outcome(h, "throw", << >>)
    ELSE updateCostAndDepth(
             Outcome([h EXCEPT !.parent[v] = newParent,
                               !.edgeCost[v] = edgeInCost], "ok", << >>),
             v, updateChildCosts, << >>)

\* addParent that forgets to store the edge cost.
addParent_KeepEdge(h, v, newParent, edgeInCost, updateChildCosts) ==
    IF assertNotPruned(h, v)
    THEN Outcome(h, "throw", << >>)
    ELSE IF debug /\ hasParent(h, v)
    THEN Outcome(h, "throw", << >>)
    ELSE IF debug /\ isRoot(v)
    THEN Outcome(h, "throw", << >>)
    ELSE updateCostAndDepth(
             Outcome([h EXCEPT !.parent[v] = newParent], "ok", << >>),
             v, updateChildCosts, << >>)

\* addParent without the check that the vertex has no parent yet.
addParent_NoParentCheck(h, v, newParent, edgeInCost, updateChildCosts) ==
    IF assertNotPruned(h, v)
    THEN Outcome(h, "throw", << >>)
    ELSE IF debug /\ isRoot(v)
    THEN Outcome(h, "throw", << >>)
    ELSE updateCostAndDepth(
             Outcome([h EXCEPT !.parent[v] = newParent,
                               !.edgeCost[v] = edgeInCost], "ok", << >>),
             v, updateChildCosts, << >>)

addParent(h, v, newParent, edgeInCost, updateChildCosts) ==
    IF assertNotPruned(h, v)
    THEN Outcome(h, "throw", << >>)
    ELSE IF debug /\ hasParent(h, v)
    THEN Outcome(h, "throw", << >>)
    ELSE IF debug /\ isRoot(v)
    THEN Outcome(h, "throw", << >>)
    ELSE updateCostAndDepth(
             Outcome([h EXCEPT !.parent[v] = newParent,
                               !.edgeCost[v] = edgeInCost], "ok", << >>),
             v, updateChildCosts, << >>)

\* removeParent that never asks the children to update.
removeParent_NoCascade(h, v, updateChildCosts) ==
    IF assertNotPruned(h, v)
    THEN Outcome(h, "throw", << >>)
    ELSE IF debug /\ ~hasParent(h, v)
    THEN Outcome(h, "throw", << >>)
    ELSE IF debug /\ isRoot(v)
    THEN Outcome(h, "throw", << >>)
    ELSE updateCostAndDepth(
             Outcome([h EXCEPT !.parent[v] = NoVertex], "ok", << >>),
             v, FALSE, << >>)

\* removeParent without the check that the vertex has a parent.
removeParent_NoParentCheck(h, v, updateChildCosts) ==
    IF assertNotPruned(h, v)
    THEN Outcome(h, "throw", << >>)
    ELSE IF debug /\ isRoot(v)
    THEN Outcome(h, "throw", << >>)
    ELSE updateCostAndDepth(
             Outcome([h EXCEPT !.parent[v] = NoVertex], "ok", << >>),
             v, updateChildCosts, << >>)

removeParent(h, v, updateChildCosts) ==
    IF assertNotPruned(h, v)
    THEN Outcome(h, "throw", << >>)
    ELSE IF debug /\ ~hasParent(h, v)
    THEN Outcome(h, "throw", << >>)
    ELSE IF debug /\ isRoot(v)
    THEN Outcome(h, "throw", << >>)
    ELSE updateCostAndDepth(
             Outcome([h EXCEPT !.parent[v] = NoVertex], "ok", << >>),
             v, updateChildCosts, << >>)

\* addChild that updates the child whatever the caller asked for.
addChild_AlwaysCascade(h, v, newChild, updateChildCosts) ==
    IF assertNotPruned(h, v)
    THEN Outcome(h, "throw", << >>)
    ELSE updateCostAndDepth(
             Outcome([h EXCEPT !.children[v] = Append(@, newChild)], "ok",
                     << >>),
             newChild, TRUE, << >>)

\* addChild that updates the child but does not list it.
addChild_NoAppend(h, v, newChild, updateChildCosts) ==
    IF assertNotPruned(h, v)
    THEN Outcome(h, "throw", << >>)
    ELSE IF updateChildCosts
         THEN updateCostAndDepth(Outcome(h, "ok", << >>), newChild, TRUE, << >>)
         ELSE Outcome(h, "ok", << >>)

addChild(h, v, newChild, updateChildCosts) ==
    IF assertNotPruned(h, v)
    THEN Outcome(h, "throw", << >>)
    ELSE LET h1 == [h EXCEPT !.children[v] = Append(@, newChild)]
         IN  IF updateChildCosts
             THEN updateCostAndDepth(Outcome(h1, "ok", << >>), newChild, TRUE, << >>)
             ELSE Outcome(h1, "ok", << >>)

\* markPruned without the assertion that the vertex is not pruned yet.
markPruned_NoAssert(h, v) ==
    Outcome([h EXCEPT !.pruned[v] = TRUE], "ok", << >>)

markPruned(h, v) ==
    IF assertNotPruned(h, v)
    THEN Outcome(h, "throw", << >>)
    ELSE Outcome([h EXCEPT !.pruned[v] = TRUE], "ok", << >>)

\* markUnpruned that also resets the cost of the vertex.
markUnpruned_ResetsCost(h, v) ==
    Outcome([h EXCEPT !.pruned[v] = FALSE, !.cost[v] = infiniteCost], "ok",
            << >>)

markUnpruned(h, v) == Outcome([h EXCEPT !.pruned[v] = FALSE], "ok", << >>)

\* removeChild's scan: the first position at which the loop stops, because
\* the weak pointer has expired, because getId throws on a pruned vertex
\* (debug) or because the ids match.  0: the loop ran to the end.
ScanStop(h, v, oldChild) ==
    LET kids == h.children[v]
        stops == {i \in 1..Len(kids) :
                     \/ expired(kids[i])
                     \/ assertNotPruned(h, kids[i])
                     \/ assertNotPruned(h, oldChild)
                     \/ vId_[kids[i]] = vId_[oldChild]}
    IN  IF stops = {} THEN 0 ELSE CHOOSE i \in stops : \A j \in stops : i <= j

\* SwapPop that pops the last entry without swapping the found one there.
SwapPop_NoSwap(kids, i) == SubSeq(kids, 1, Len(kids) - 1)

\* std::swap(*childIter, childWPtrs_.back()); childWPtrs_.pop_back();
SwapPop(kids, i) ==
    [j \in 1..(Len(kids) - 1) |-> IF j = i THEN kids[Len(kids)] ELSE kids[j]]

\* removeChild that also clears the parent of the child it removes.
removeChild_ClearsParent(h, v, oldChild, updateChildCosts) ==
    IF assertNotPruned(h, v)
    THEN Outcome(h, "throw", << >>)
    ELSE LET i == ScanStop(h, v, oldChild)
             foundChild == i # 0
         IN  IF foundChild /\ expired(h.children[v][i])
             THEN Outcome(h, IF debug THEN "throw" ELSE "crash", << >>)
             ELSE IF foundChild /\ (\/ assertNotPruned(h, h.children[v][i])
                                    \/ assertNotPruned(h, oldChild))
             THEN Outcome(h, "throw", << >>)
             ELSE LET h1 == IF foundChild
                            THEN [h EXCEPT !.children[v] = SwapPop(@, i),
                                           !.parent[oldChild] = NoVertex]
                            ELSE h
                      r  == IF updateChildCosts
                            THEN updateCostAndDepth(Outcome(h1, "ok", << >>),
                                                    oldChild, TRUE, << >>)
                            ELSE Outcome(h1, "ok", << >>)
                 IN  IF r.res = "ok" /\ debug /\ ~foundChild
                     THEN [r EXCEPT !.res = "throw"]
                     ELSE r

\* removeChild without the final check that the child was found.
removeChild_NoFoundCheck(h, v, oldChild, updateChildCosts) ==
    IF assertNotPruned(h, v)
    THEN Outcome(h, "throw", << >>)
    ELSE LET i == ScanStop(h, v, oldChild)
             foundChild == i # 0
         IN  IF foundChild /\ expired(h.children[v][i])
             THEN Outcome(h, IF debug THEN "throw" ELSE "crash", << >>)
             ELSE IF foundChild /\ (\/ assertNotPruned(h, h.children[v][i])
                                    \/ assertNotPruned(h, oldChild))
             THEN Outcome(h, "throw", << >>)
             ELSE LET h1 == IF foundChild
                            THEN [h EXCEPT !.children[v] = SwapPop(@, i)]
                            ELSE h
                  IN  IF updateChildCosts
                      THEN updateCostAndDepth(Outcome(h1, "ok", << >>),
                                              oldChild, TRUE, << >>)
                      ELSE Outcome(h1, "ok", << >>)

removeChild(h, v, oldChild, updateChildCosts) ==
    IF assertNotPruned(h, v)
    THEN Outcome(h, "throw", << >>)
    ELSE LET i == ScanStop(h, v, oldChild)
             foundChild == i # 0
         IN  IF foundChild /\ expired(h.children[v][i])
             THEN Outcome(h, IF debug THEN "throw" ELSE "crash", << >>)
             ELSE IF foundChild /\ (\/ assertNotPruned(h, h.children[v][i])
                                    \/ assertNotPruned(h, oldChild))
             THEN Outcome(h, "throw", << >>)
             ELSE LET h1 == IF foundChild
                            THEN [h EXCEPT !.children[v] = SwapPop(@, i)]
                            ELSE h
                      r  == IF updateChildCosts
                            THEN updateCostAndDepth(Outcome(h1, "ok", << >>),
                                                    oldChild, TRUE, << >>)
                            ELSE Outcome(h1, "ok", << >>)
                 IN  IF r.res = "ok" /\ debug /\ ~foundChild
                     THEN [r EXCEPT !.res = "throw"]
                     ELSE r

\* ------------------------------------------------------------ construction
\* A constructor that leaves vId_ at a default instead of the drawn id.
Vertex_DefaultId(id, root) ==
    [vId |-> 0, isRoot |-> root, parent |-> NoVertex,
     edgeCost |-> infiniteCost,
     cost |-> IF root THEN identityCost ELSE infiniteCost,
     depth |-> 0, children |-> << >>, pruned |-> FALSE]

\* Vertex::Vertex(si, costHelpPtr, root): the members of a new vertex.
Vertex(id, root) ==
    [vId |-> id, isRoot |-> root, parent |-> NoVertex,
     edgeCost |-> infiniteCost,
     cost |-> IF root THEN identityCost ELSE infiniteCost,
     depth |-> InitialDepth, children |-> << >>, pruned |-> InitialPruned]

\* IdGenerator::getNewId hands out 0, 1, 2, ...
FirstId == 0

NoPending == [op |-> "none", v |-> NoVertex, p |-> NoVertex, e |-> 0]

\* The flags of a vertex as its constructor leaves them.
FlagsDefault ==
    /\ isNew_ = [v \in Vertices |-> InitialNew]
    /\ hasBeenExpandedToSamples_ = [v \in Vertices |-> InitialExpanded]
    /\ hasBeenExpandedToVertices_ = [v \in Vertices |-> InitialExpanded]

NoOp == [op |-> "none", self |-> NoVertex, other |-> NoVertex, res |-> "ok",
         trace |-> << >>]

NoQuery == [state |-> 0, time |-> 0, key |-> 0, result |-> TRUE,
            consulted |-> << >>, asked |-> FALSE]

\* A validity checker that holds no dynamic obstacle and has not been asked.
CheckerIdle ==
    /\ dynObstacles_ = << >>
    /\ scalingFactor_ = 1
    /\ validStates = {}
    /\ conflicts = {}
    /\ freed = [c \in {} |-> 0]
    /\ lastQuery = NoQuery

\* No followManifold call has been made.
NoReason == "none"
NoTraversal == [active |-> FALSE, interpolate |-> FALSE, hasList |-> FALSE,
                d_straight |-> 0, toGo |-> 0, travelled |-> 0, x |-> 0,
                checked |-> {}, stateList |-> << >>, reason |-> NoReason,
                result |-> "none"]

\* An atlas that holds no chart yet and has traversed nothing.
AtlasIdle ==
    /\ charts_ = 0
    /\ traversal = NoTraversal

\* The planner has constructed its vertices, the roots (start vertices) first.
VerticesMade(builds, rootCounts) ==
    /\ debug \in builds
    /\ made = Vertices
    /\ nextId = FirstId + MaxVertices
    /\ \E roots \in rootCounts :
         LET new == [v \in Vertices |-> Vertex(FirstId + v - 1, v <= roots)]
         IN  /\ vId_        = [v \in Vertices |-> new[v].vId]
             /\ isRoot_     = [v \in Vertices |-> new[v].isRoot]
             /\ parentSPtr_ = [v \in Vertices |-> new[v].parent]
             /\ edgeCost_   = [v \in Vertices |-> new[v].edgeCost]
             /\ cost_       = [v \in Vertices |-> new[v].cost]
             /\ depth_      = [v \in Vertices |-> new[v].depth]
             /\ childWPtrs_ = [v \in Vertices |-> new[v].children]
             /\ isPruned_   = [v \in Vertices |-> new[v].pruned]
    /\ calls = 0
    /\ raised = FALSE
    /\ pending = NoPending
    /\ lastOp = NoOp
    /\ state_ = [v \in Vertices |-> v]
    /\ freeCalls = [s \in Vertices |-> 0]
    /\ FlagsDefault

Init ==
    /\ VerticesMade(BOOLEAN, 0..MaxVertices)
    /\ CheckerIdle
    /\ AtlasIdle

\* ----------------------------------------------------------------- actions
Running == lastOp.res \notin {"overflow", "crash"}

InBounds(h) ==
    \A v \in Vertices :
        /\ h.cost[v] <= MaxCost
        /\ h.depth[v] <= MaxDepth
        /\ Len(h.children[v]) <= MaxChildren

\* si_->allocState(): a state of its own for the caller, not freed yet.
\* States are named by their place in the order of allocation.
allocState(counts) == Append(counts, 0)

\* si_->freeState(state): one more call of freeState on the state.
freeState(counts, s) == [counts EXCEPT ![s] = @ + 1]

\* The calls of freeState after operation op on v: no operation of a vertex
\* frees a state, the destructor alone does.
FreeCallsAfter_PruneFrees(op, v) ==
    IF op = "markPruned" THEN freeState(freeCalls, state_[v]) ELSE freeCalls

FreeCallsAfter(op, v) == freeCalls

\* The state after a call that ended as r.  A call that never returns or
\* kills the process leaves no later state of the program: the members are
\* kept and nothing follows.
Store(op, v, other, r) ==
    /\ Running
    /\ InBounds(r.h)
    /\ IF r.res \in {"overflow", "crash"}
       THEN UNCHANGED <<parentSPtr_, edgeCost_, cost_, depth_, childWPtrs_,
                        isPruned_>>
       ELSE /\ parentSPtr_' = r.h.parent
            /\ edgeCost_'   = r.h.edgeCost
            /\ cost_'       = r.h.cost
            /\ depth_'      = r.h.depth
            /\ childWPtrs_' = r.h.children
            /\ isPruned_'   = r.h.pruned
    /\ lastOp' = [op |-> op, self |-> v, other |-> other, res |-> r.res,
                  trace |-> IF r.res \in {"overflow", "crash"} THEN << >>
                            ELSE r.trace]
    /\ raised' = (raised \/ r.res = "throw")
    /\ calls'  = calls + 1
    /\ UNCHANGED <<debug, nextId, made, vId_, isRoot_, state_>>
    /\ UNCHANGED flagVars
    /\ freeCalls' = FreeCallsAfter(op, v)
    /\ UNCHANGED checkerVars
    /\ UNCHANGED atlasVars

AddParent(v, p, e, casc) ==
    Store("addParent", v, p, addParent(Heap, v, p, e, casc))

RemoveParent(v, casc) ==
    Store("removeParent", v, NoVertex, removeParent(Heap, v, casc))

AddChild(v, c, casc) ==
    Store("addChild", v, c, addChild(Heap, v, c, casc))

RemoveChild(v, c, casc) ==
    Store("removeChild", v, c, removeChild(Heap, v, c, casc))

MarkPruned(v) ==
    Store("markPruned", v, NoVertex, markPruned(Heap, v))

MarkUnpruned(v) ==
    Store("markUnpruned", v, NoVertex, markUnpruned(Heap, v))

\* markNew, markOld, markExpandedToSamples, markUnexpandedToSamples,
\* markExpandedToVertices, markUnexpandedToVertices: each asserts that the
\* vertex is not pruned and writes one flag.
FlagCall(op, v) ==
    LET thrown == assertNotPruned(Heap, v)
    IN  /\ Running
        /\ isNew_' =
              IF ~thrown /\ op \in {"markNew", "markOld"}
              THEN [isNew_ EXCEPT ![v] = (op = "markNew")]
              ELSE isNew_
        /\ hasBeenExpandedToSamples_' =
              IF ~thrown /\ op \in {"markExpandedToSamples",
                                    "markUnexpandedToSamples"}
              THEN [hasBeenExpandedToSamples_ EXCEPT
                        ![v] = (op = "markExpandedToSamples")]
              ELSE hasBeenExpandedToSamples_
        /\ hasBeenExpandedToVertices_' =
              IF ~thrown /\ op \in {"markExpandedToVertices",
                                    "markUnexpandedToVertices"}
              THEN [hasBeenExpandedToVertices_ EXCEPT
                        ![v] = (op = "markExpandedToVertices")]
              ELSE hasBeenExpandedToVertices_
        /\ lastOp' = [op |-> op, self |-> v, other |-> NoVertex,
                      res |-> IF thrown THEN "throw" ELSE "ok",
                      trace |-> << >>]
        /\ raised' = (raised \/ thrown)
        /\ calls' = calls + 1
        /\ UNCHANGED <<debug, nextId, made, fields, state_, freeCalls>>
        /\ UNCHANGED checkerVars
        /\ UNCHANGED atlasVars

MarkNew(v) == FlagCall("markNew", v)
MarkOld(v) == FlagCall("markOld", v)
MarkExpandedToSamples(v) == FlagCall("markExpandedToSamples", v)
MarkUnexpandedToSamples(v) == FlagCall("markUnexpandedToSamples", v)
MarkExpandedToVertices(v) == FlagCall("markExpandedToVertices", v)
MarkUnexpandedToVertices(v) == FlagCall("markUnexpandedToVertices", v)

\* A caller that sets and clears the flags of its vertices, prunes and
\* unprunes them and gives them parents and children.
NextFlags ==
    /\ calls < MaxFlagCalls
    /\ pending' = pending
    /\ \/ \E v \in made : MarkNew(v)
       \/ \E v \in made : MarkOld(v)
       \/ \E v \in made : MarkExpandedToSamples(v)
       \/ \E v \in made : MarkUnexpandedToSamples(v)
       \/ \E v \in made : MarkExpandedToVertices(v)
       \/ \E v \in made : MarkUnexpandedToVertices(v)
       \/ \E v \in made : MarkPruned(v)
       \/ \E v \in made : MarkUnpruned(v)
       \/ \E v \in made, p \in made, e \in EdgeCosts, casc \in BOOLEAN :
              AddParent(v, p, e, casc)
       \/ \E v \in made, c \in made, casc \in BOOLEAN : AddChild(v, c, casc)

SpecFlags == Init /\ [][NextFlags]_vars

\* A caller that follows no discipline: any call, with any arguments.
Next ==
    /\ calls < MaxCalls
    /\ pending' = pending
    /\ \/ \E v \in made, p \in made, e \in EdgeCosts, casc \in BOOLEAN :
              AddParent(v, p, e, casc)
       \/ \E v \in made, casc \in BOOLEAN : RemoveParent(v, casc)
       \/ \E v \in made, c \in made, casc \in BOOLEAN : AddChild(v, c, casc)
       \/ \E v \in made, c \in made, casc \in BOOLEAN : RemoveChild(v, c, casc)
       \/ \E v \in made : MarkPruned(v)
       \/ \E v \in made : MarkUnpruned(v)

Spec == Init /\ [][Next]_vars

\* The planner drops its last strong reference to v and no vertex holds v as
\* its parent: ~Vertex runs, which frees the state and touches no other
\* vertex; the weak pointers to v in child lists expire where they are.
Destroy(v) ==
    /\ Running
    /\ v \in made
    /\ \A w \in made : parentSPtr_[w] # v
    /\ made' = made \ {v}
    /\ parentSPtr_' = [parentSPtr_ EXCEPT ![v] = NoVertex]
    /\ edgeCost_'   = [edgeCost_ EXCEPT ![v] = infiniteCost]
    /\ cost_'       = [cost_ EXCEPT ![v] = infiniteCost]
    /\ depth_'      = [depth_ EXCEPT ![v] = 0]
    /\ childWPtrs_' = [childWPtrs_ EXCEPT ![v] = << >>]
    /\ isPruned_'   = [isPruned_ EXCEPT ![v] = FALSE]
    /\ lastOp' = [op |-> "destroy", self |-> v, other |-> NoVertex,
                  res |-> "ok", trace |-> << >>]
    /\ calls' = calls + 1
    /\ freeCalls' = freeState(freeCalls, state_[v])
    /\ UNCHANGED <<debug, nextId, vId_, isRoot_, raised, state_>>
    /\ UNCHANGED flagVars
    /\ UNCHANGED checkerVars
    /\ UNCHANGED atlasVars

\* A caller that also lets vertices go.
NextLifetime ==
    /\ calls < MaxLifetimeCalls
    /\ pending' = pending
    /\ \/ \E v \in made, p \in made, e \in EdgeCosts, casc \in BOOLEAN :
              AddParent(v, p, e, casc)
       \/ \E v \in made, casc \in BOOLEAN : RemoveParent(v, casc)
       \/ \E v \in made, c \in made, casc \in BOOLEAN : AddChild(v, c, casc)
       \/ \E v \in made, c \in made, casc \in BOOLEAN : RemoveChild(v, c, casc)
       \/ \E v \in made : Destroy(v)

SpecLifetime == Init /\ [][NextLifetime]_vars

\* The planner constructs a vertex: Vertex::Vertex draws an id from the id
\* generator and allocates a state.  The vertices take the places 1, 2, ...
\* in the order of their construction and a place is not taken again.
Construct(v, root) ==
    /\ Running
    /\ state_[v] = 0
    /\ \A w \in Vertices : w < v => state_[w] # 0
    /\ made' = made \cup {v}
    /\ nextId' = nextId + 1
    /\ vId_'        = [vId_ EXCEPT ![v] = Vertex(nextId, root).vId]
    /\ isRoot_'     = [isRoot_ EXCEPT ![v] = Vertex(nextId, root).isRoot]
    /\ parentSPtr_' = [parentSPtr_ EXCEPT ![v] = Vertex(nextId, root).parent]
    /\ edgeCost_'   = [edgeCost_ EXCEPT ![v] = Vertex(nextId, root).edgeCost]
    /\ cost_'       = [cost_ EXCEPT ![v] = Vertex(nextId, root).cost]
    /\ depth_'      = [depth_ EXCEPT ![v] = Vertex(nextId, root).depth]
    /\ childWPtrs_' = [childWPtrs_ EXCEPT ![v] = Vertex(nextId, root).children]
    /\ isPruned_'   = [isPruned_ EXCEPT ![v] = Vertex(nextId, root).pruned]
    /\ state_' = [state_ EXCEPT ![v] = Len(allocState(freeCalls))]
    /\ freeCalls' = allocState(freeCalls)
    /\ lastOp' = [op |-> "construct", self |-> v, other |-> NoVertex,
                  res |-> "ok", trace |-> << >>]
    /\ calls' = calls + 1
    /\ UNCHANGED <<debug, raised>>
    /\ isNew_' = [isNew_ EXCEPT ![v] = InitialNew]
    /\ hasBeenExpandedToSamples_' =
          [hasBeenExpandedToSamples_ EXCEPT ![v] = InitialExpanded]
    /\ hasBeenExpandedToVertices_' =
          [hasBeenExpandedToVertices_ EXCEPT ![v] = InitialExpanded]
    /\ UNCHANGED checkerVars
    /\ UNCHANGED atlasVars

\* Before the planner has constructed any vertex: the id generator has
\* handed out nothing and no state is allocated.
NoVertices ==
    /\ debug \in BOOLEAN
    /\ made = {}
    /\ nextId = FirstId
    /\ vId_        = [v \in Vertices |-> FirstId - 1]
    /\ isRoot_     = [v \in Vertices |-> FALSE]
    /\ parentSPtr_ = [v \in Vertices |-> NoVertex]
    /\ edgeCost_   = [v \in Vertices |-> infiniteCost]
    /\ cost_       = [v \in Vertices |-> infiniteCost]
    /\ depth_      = [v \in Vertices |-> InitialDepth]
    /\ childWPtrs_ = [v \in Vertices |-> << >>]
    /\ isPruned_   = [v \in Vertices |-> InitialPruned]
    /\ calls = 0
    /\ raised = FALSE
    /\ pending = NoPending
    /\ lastOp = NoOp
    /\ state_ = [v \in Vertices |-> 0]
    /\ freeCalls = << >>
    /\ FlagsDefault

InitConstruct ==
    /\ NoVertices
    /\ CheckerIdle
    /\ AtlasIdle

\* A caller that makes its vertices, uses them and lets them go.
NextConstruct ==
    /\ calls < MaxConstructCalls
    /\ pending' = pending
    /\ \/ \E v \in Vertices, root \in BOOLEAN : Construct(v, root)
       \/ \E v \in made, p \in made, e \in EdgeCosts, casc \in BOOLEAN :
              AddParent(v, p, e, casc)
       \/ \E v \in made, casc \in BOOLEAN : RemoveParent(v, casc)
       \/ \E v \in made, c \in made, casc \in BOOLEAN : AddChild(v, c, casc)
       \/ \E v \in made, c \in made, casc \in BOOLEAN : RemoveChild(v, c, casc)
       \/ \E v \in made : MarkPruned(v)
       \/ \E v \in made : MarkUnpruned(v)
       \/ \E v \in made : Destroy(v)

SpecConstruct == InitConstruct /\ [][NextConstruct]_vars

\* The stated preconditions of the structural calls (the spec's contract).
CanAddParent(v)     == ~isPruned_[v] /\ ~isRoot(v) /\ ~hasParent(Heap, v)
CanRemoveParent(v)  == ~isPruned_[v] /\ ~isRoot(v) /\ hasParent(Heap, v)
CanRemoveChild(v, c) ==
    ~isPruned_[v] /\ \E i \in 1..Len(childWPtrs_[v]) : childWPtrs_[v][i] = c

\* A caller that keeps the cascade enabled and meets each call's stated
\* precondition.
NextCascade ==
    /\ calls < MaxCascadeCalls
    /\ pending' = pending
    /\ \/ \E v \in made, p \in made, e \in EdgeCosts :
              CanAddParent(v) /\ AddParent(v, p, e, TRUE)
       \/ \E v \in made : CanRemoveParent(v) /\ RemoveParent(v, TRUE)
       \/ \E v \in made, c \in made : AddChild(v, c, TRUE)
       \/ \E v \in made, c \in made :
              CanRemoveChild(v, c) /\ RemoveChild(v, c, TRUE)

SpecCascade == Init /\ [][NextCascade]_vars

\* A planner that keeps child lists and parent pointers paired, with the
\* cascade on: it links v under p (v.addParent, then p.addChild), unlinks v
\* (parent.removeChild, then v.removeParent) and rewires v to a new parent
\* (unlink, then link).  When a call raises, the planner either abandons the
\* operation or catches the exception and carries on.
Owes(op, v, p, e) ==
    LET next == [op |-> op, v |-> v, p |-> p, e |-> e]
    IN  pending' \in CASE lastOp'.res = "ok"    -> {next}
                       [] lastOp'.res = "throw" -> {next, NoPending}
                       [] OTHER                 -> {NoPending}

Idle == pending.op = "none"

LinkStart(v, p, e) ==
    /\ Idle /\ CanAddParent(v)
    /\ AddParent(v, p, e, TRUE)
    /\ Owes("addChild", v, p, 0)

LinkFinish ==
    /\ pending.op \in {"addChild", "rewire_addChild"}
    /\ AddChild(pending.p, pending.v, TRUE)
    /\ pending' = NoPending

UnlinkStart(v) ==
    /\ Idle /\ CanRemoveParent(v) /\ CanRemoveChild(parentSPtr_[v], v)
    /\ RemoveChild(parentSPtr_[v], v, TRUE)
    /\ Owes("removeParent", v, NoVertex, 0)

UnlinkFinish ==
    /\ pending.op = "removeParent"
    /\ RemoveParent(pending.v, TRUE)
    /\ pending' = NoPending

RewireStart(v, p, e) ==
    /\ Idle /\ CanRemoveParent(v) /\ CanRemoveChild(parentSPtr_[v], v)
    /\ RemoveChild(parentSPtr_[v], v, TRUE)
    /\ Owes("rewire_removeParent", v, p, e)

RewireRemoveParent ==
    /\ pending.op = "rewire_removeParent"
    /\ RemoveParent(pending.v, TRUE)
    /\ Owes("rewire_addParent", pending.v, pending.p, pending.e)

RewireAddParent ==
    /\ pending.op = "rewire_addParent"
    /\ AddParent(pending.v, pending.p, pending.e, TRUE)
    /\ Owes("rewire_addChild", pending.v, pending.p, 0)

NextPaired ==
    /\ calls < MaxPairedCalls
    /\ \/ \E v \in made, p \in made, e \in EdgeCosts : LinkStart(v, p, e)
       \/ LinkFinish
       \/ \E v \in made : UnlinkStart(v)
       \/ UnlinkFinish
       \/ \E v \in made, p \in made, e \in EdgeCosts : RewireStart(v, p, e)
       \/ RewireRemoveParent
       \/ RewireAddParent

SpecPaired == Init /\ [][NextPaired]_vars

\* A planner that pairs its calls, with the cascade on, but does not look at
\* the vertices before it calls: it links any v under any p and unlinks any
\* v that has a parent.
LinkAnyStart(v, p, e) ==
    /\ Idle
    /\ AddParent(v, p, e, TRUE)
    /\ Owes("addChild", v, p, 0)

UnlinkAnyStart(v) ==
    /\ Idle /\ hasParent(Heap, v)
    /\ RemoveChild(parentSPtr_[v], v, TRUE)
    /\ Owes("removeParent", v, NoVertex, 0)

NextPairedAny ==
    /\ calls < MaxPairedAnyCalls
    /\ \/ \E v \in made, p \in made, e \in EdgeCosts : LinkAnyStart(v, p, e)
       \/ LinkFinish
       \/ \E v \in made : UnlinkAnyStart(v)
       \/ UnlinkFinish

SpecPairedAny == Init /\ [][NextPairedAny]_vars

\* ------------------------------------------- StateValidityChecker, by time
\* Times are held in hundredths: the time t stands for t / TimeDen.
TimeDen == 100
Times == {-37, 0, 35, 37, 44}
ScalingFactors == {1, 10}
States == 1..MaxStates
\* An obstacle is a pair (si_other, s_other): another robot's state.
Obstacles == 1..MaxObstacleStates

\* std::round(num / den): to the nearest integer, halves away from zero.
Round(num, den) ==
    IF num >= 0 THEN (2 * num + den) \div (2 * den)
    ELSE -((2 * (-num) + den) \div (2 * den))

\* The key computed by a conversion to int that drops the fraction.
TimeKey_Truncate(time) ==
    IF time * scalingFactor_ >= 0
    THEN (time * scalingFactor_) \div TimeDen
    ELSE -((-(time * scalingFactor_)) \div TimeDen)

\* int t_key = std::round(time * scalingFactor_);
TimeKey(time) == Round(time * scalingFactor_, TimeDen)

\* The user's overrides of isValid(state) and areStatesValid(state, pair).
isValidState(s) == s \in validStates
areStatesValid(s, o) == <<s, o>> \notin conflicts

\* The loop over the obstacles stored at one key that only looks at the
\* first of them.
RECURSIVE CheckObstacles(_, _, _)
CheckObstacles_FirstOnly(s, obs, i) ==
    IF i > Len(obs) \/ i > 1
    THEN [result |-> TRUE, consulted |-> << >>]
    ELSE IF ~areStatesValid(s, obs[i])
    THEN [result |-> FALSE, consulted |-> <<obs[i]>>]
    ELSE [result |-> TRUE, consulted |-> <<obs[i]>>]

\* The loop over the obstacles stored at one key, from position i: FALSE at
\* the first one areStatesValid rejects.  consulted: the obstacles handed to
\* areStatesValid, in order.
CheckObstacles(s, obs, i) ==
    IF i > Len(obs)
    THEN [result |-> TRUE, consulted |-> << >>]
    ELSE IF ~areStatesValid(s, obs[i])
    THEN [result |-> FALSE, consulted |-> <<obs[i]>>]
    ELSE LET rest == CheckObstacles(s, obs, i + 1)
         IN  [result |-> rest.result,
              consulted |-> <<obs[i]>> \o rest.consulted]

\* isValid(state, time) that runs the loop over the obstacles before it asks
\* isValid(state).
isValid_ObstaclesFirst(dyn, s, time) ==
    IF DOMAIN dyn = {}
    THEN [result |-> isValidState(s), consulted |-> << >>]
    ELSE IF TimeKey(time) \in DOMAIN dyn
    THEN LET c == CheckObstacles(s, dyn[TimeKey(time)], 1)
         IN  [result |-> c.result /\ isValidState(s),
              consulted |-> c.consulted]
    ELSE [result |-> isValidState(s), consulted |-> << >>]

\* StateValidityChecker::isValid(state, time) on the map dyn.
isValid(dyn, s, time) ==
    IF DOMAIN dyn = {}
    THEN [result |-> isValidState(s), consulted |-> << >>]
    ELSE IF isValidState(s)
    THEN IF TimeKey(time) \in DOMAIN dyn
         THEN CheckObstacles(s, dyn[TimeKey(time)], 1)
         ELSE [result |-> TRUE, consulted |-> << >>]
    ELSE [result |-> FALSE, consulted |-> << >>]

\* How many obstacles the map holds.
RECURSIVE Stored(_, _)
Stored(dyn, keys) ==
    IF keys = {} THEN 0
    ELSE LET k == CHOOSE x \in keys : TRUE
         IN  Len(dyn[k]) + Stored(dyn, keys \ {k})

\* addDynamicObstacle(time, si, state): the pair goes to the end of the
\* list stored under the key of the time.
addDynamicObstacle(dyn, time, o) ==
    IF TimeKey(time) \in DOMAIN dyn
    THEN [dyn EXCEPT ![TimeKey(time)] = Append(@, o)]
    ELSE [k \in DOMAIN dyn \cup {TimeKey(time)} |->
             IF k = TimeKey(time) THEN <<o>> ELSE dyn[k]]

\* The pair stored for obstacle o: the space information of the robot the
\* state belongs to, and the state.
OwnSi == 0
SiOther(o) == o
Pair(o) == [first |-> SiOther(o), second |-> o]

\* st_itr->first->freeState(st_itr->second) through the checker's own space
\* information instead.
FreeCall_OwnSi(pair) == [si |-> OwnSi, state |-> pair.second]

\* st_itr->first->freeState(st_itr->second): which space information frees
\* which state.
FreeCall(pair) == [si |-> pair.first, state |-> pair.second]

FreeCalls == [si : {OwnSi} \cup {SiOther(o) : o \in Obstacles},
              state : Obstacles]

\* The places of the map that hold obstacle o.
EntriesOf(dyn, o) ==
    {<<k, i>> \in (DOMAIN dyn) \X (1..MaxObstacles) :
        i <= Len(dyn[k]) /\ dyn[k][i] = o}

\* How often freeState was called on the state of obstacle o, through any
\* space information.
RECURSIVE SumFreed(_)
SumFreed(cs) ==
    IF cs = {} THEN 0
    ELSE LET c == CHOOSE x \in cs : TRUE
         IN  freed[c] + SumFreed(cs \ {c})
TimesFreed(o) == SumFreed({c \in DOMAIN freed : c.state = o})

\* The calls of freeState that clearDynamicObstacles makes on the map dyn,
\* one for each place of the map.
FreedByClear(dyn, c) ==
    Cardinality(UNION {EntriesOf(dyn, o) :
                          o \in {x \in Obstacles : FreeCall(Pair(x)) = c}})

\* A state freed twice: what the program does from then on is undefined, and
\* no later state of it is described.
CheckerRunning == \A o \in Obstacles : TimesFreed(o) <= 1

AddDynamicObstacle(time, o) ==
    /\ CheckerRunning
    /\ Stored(dynObstacles_, DOMAIN dynObstacles_) < MaxObstacles
    /\ TimesFreed(o) = 0
    /\ dynObstacles_' = addDynamicObstacle(dynObstacles_, time, o)
    /\ lastQuery' = NoQuery
    /\ UNCHANGED <<scalingFactor_, validStates, conflicts, freed>>
    /\ UNCHANGED vertexVars
    /\ UNCHANGED atlasVars

IsValid(s, time) ==
    /\ CheckerRunning
    /\ lastQuery' = [state |-> s, time |-> time, key |-> TimeKey(time),
                     result |-> isValid(dynObstacles_, s, time).result,
                     consulted |-> isValid(dynObstacles_, s, time).consulted,
                     asked |-> TRUE]
    /\ UNCHANGED <<dynObstacles_, scalingFactor_, validStates, conflicts,
                   freed>>
    /\ UNCHANGED vertexVars
    /\ UNCHANGED atlasVars

\* clearDynamicObstacles: every stored state goes to freeState of its space
\* information, then the map is emptied.
ClearDynamicObstacles ==
    /\ CheckerRunning
    /\ LET count(c) == (IF c \in DOMAIN freed THEN freed[c] ELSE 0)
                            + FreedByClear(dynObstacles_, c)
       IN  freed' = [c \in {x \in FreeCalls : count(x) > 0} |-> count(c)]
    /\ dynObstacles_' = << >>
    /\ lastQuery' = NoQuery
    /\ UNCHANGED <<scalingFactor_, validStates, conflicts>>
    /\ UNCHANGED vertexVars
    /\ UNCHANGED atlasVars

\* A checker of some robot: its scaling factor and the user's two
\* predicates are fixed when it is made.
InitChecker ==
    /\ VerticesMade({FALSE}, {0})
    /\ dynObstacles_ = << >>
    /\ scalingFactor_ \in ScalingFactors
    /\ validStates \in SUBSET States
    /\ conflicts \in SUBSET (States \X Obstacles)
    /\ freed = [c \in {} |-> 0]
    /\ lastQuery = NoQuery
    /\ AtlasIdle

NextChecker ==
    \/ \E time \in Times, o \in Obstacles : AddDynamicObstacle(time, o)
    \/ \E s \in States, time \in Times : IsValid(s, time)
    \/ ClearDynamicObstacles

SpecChecker == InitChecker /\ [][NextChecker]_vars

\* ------------------------------------------------------- AtlasStateSpace
\* Lengths are counted in steps of delta, the traversal's step size; lambda
\* is the factor of the straight distance a traversal may accumulate.
delta_  == 1
lambda_ == 2

Reasons == {"projection-failed", "chart-invalid", "collision", "too-far",
            "reached"}

\* What one projected step can do to the walker: psi moves it by len, and
\* the new state's distance to the target differs from the old one by at
\* most len.  Without a direction (the walker sits on the target) the step
\* may also stay where it is.
StepLens(toGo) == IF toGo = 0 THEN 0..MaxStepLen ELSE 1..MaxStepLen
Gap(a, b) == IF a < b THEN b - a ELSE a - b
NewDists(toGo, len) == Gap(toGo, len)..(toGo + len)

\* followManifold, step 1: x <- from, travelled <- 0, d_straight <-
\* |to - from|; a state list given by the caller starts with a copy of from.
\* States are named by their place in the walk, from being 0.
StartTraversal(d, interpolate, hasList) ==
    [active |-> TRUE, interpolate |-> interpolate, hasList |-> hasList,
     d_straight |-> d, toGo |-> d, travelled |-> 0, x |-> 0,
     checked |-> {}, stateList |-> IF hasList THEN <<0>> ELSE << >>,
     reason |-> NoReason, result |-> "none"]

\* followManifold, step 3: the call returns true iff it stopped with reached.
Stop(t, why) ==
    [t EXCEPT !.active = FALSE, !.reason = why,
              !.result = IF why = "reached" THEN "true" ELSE "false"]

\* followManifold, steps 2a to 2j: one pass of the loop.  psi tells whether
\* the projection succeeded, len is |x_new - x|, newDist is |x_new - to| and
\* valid is the answer of the validity callback, asked only when the call
\* does not interpolate.
followManifold_NoTooFar(t, psi, len, newDist, valid) ==
    LET asked == IF ~t.interpolate
                 THEN [t EXCEPT !.checked = @ \cup {t.x + 1}]
                 ELSE t
        moved == [asked EXCEPT !.travelled = @ + len]
    IN  IF ~psi THEN Stop(t, "projection-failed")
        ELSE IF len > 2 * delta_ THEN Stop(t, "chart-invalid")
        ELSE IF ~t.interpolate /\ ~valid THEN Stop(asked, "collision")
        ELSE IF newDist <= delta_ THEN Stop(moved, "reached")
        ELSE [moved EXCEPT !.x = @ + 1, !.toGo = newDist,
                           !.stateList = IF t.hasList
                                         THEN Append(@, t.x + 1) ELSE @]

followManifold_LongStep(t, psi, len, newDist, valid) ==
    LET asked == IF ~t.interpolate
                 THEN [t EXCEPT !.checked = @ \cup {t.x + 1}]
                 ELSE t
        moved == [asked EXCEPT !.travelled = @ + len]
    IN  IF ~psi THEN Stop(t, "projection-failed")
        ELSE IF len > 3 * delta_ THEN Stop(t, "chart-invalid")
        ELSE IF ~t.interpolate /\ ~valid THEN Stop(asked, "collision")
        ELSE IF moved.travelled > lambda_ * t.d_straight
             THEN Stop(moved, "too-far")
        ELSE IF newDist <= delta_ THEN Stop(moved, "reached")
        ELSE [moved EXCEPT !.x = @ + 1, !.toGo = newDist,
                           !.stateList = IF t.hasList
                                         THEN Append(@, t.x + 1) ELSE @]

followManifold_Inverted(t, psi, len, newDist, valid) ==
    LET asked == IF t.interpolate
                 THEN [t EXCEPT !.checked = @ \cup {t.x + 1}]
                 ELSE t
        moved == [asked EXCEPT !.travelled = @ + len]
    IN  IF ~psi THEN Stop(t, "projection-failed")
        ELSE IF len > 2 * delta_ THEN Stop(t, "chart-invalid")
        ELSE IF t.interpolate /\ ~valid THEN Stop(asked, "collision")
        ELSE IF moved.travelled > lambda_ * t.d_straight
             THEN Stop(moved, "too-far")
        ELSE IF newDist <= delta_ THEN Stop(moved, "reached")
        ELSE [moved EXCEPT !.x = @ + 1, !.toGo = newDist,
                           !.stateList = IF t.hasList
                                         THEN Append(@, t.x + 1) ELSE @]

followManifold(t, psi, len, newDist, valid) ==
    LET asked == IF ~t.interpolate
                 THEN [t EXCEPT !.checked = @ \cup {t.x + 1}]
                 ELSE t
        moved == [asked EXCEPT !.travelled = @ + len]
    IN  IF ~psi THEN Stop(t, "projection-failed")
        ELSE IF len > 2 * delta_ THEN Stop(t, "chart-invalid")
        ELSE IF ~t.interpolate /\ ~valid THEN Stop(asked, "collision")
        ELSE IF moved.travelled > lambda_ * t.d_straight
             THEN Stop(moved, "too-far")
        ELSE IF newDist <= delta_ THEN Stop(moved, "reached")
        ELSE [moved EXCEPT !.x = @ + 1, !.toGo = newDist,
                           !.stateList = IF t.hasList
                                         THEN Append(@, t.x + 1) ELSE @]

\* followManifold, step 2e: a new state that no known chart owns gets a
\* chart of its own.  Charts are named by their place in the order of
\* creation, so the atlas holds the charts 1..charts_.
ChartsAfter_Evict(psi, len, owned) ==
    IF psi /\ len <= 2 * delta_ /\ ~owned
    THEN IF charts_ < MaxCharts THEN charts_ + 1 ELSE charts_ - 1
    ELSE charts_

ChartsAfter(psi, len, owned) ==
    IF psi /\ len <= 2 * delta_ /\ ~owned /\ charts_ < MaxCharts
    THEN charts_ + 1
    ELSE charts_

\* getChartCount: the number of charts currently in the atlas.
getChartCount == charts_

\* newChart(xorigin): the atlas holds one chart more.
NewChart ==
    /\ ~traversal.active
    /\ charts_ < MaxCharts
    /\ charts_' = charts_ + 1
    /\ UNCHANGED traversal
    /\ UNCHANGED vertexVars
    /\ UNCHANGED checkerVars

\* sampleUniform(out), sampleUniformNear(out, near, d): a chart is chosen, a
\* point of it is projected, and a sample that no known chart owns gets a
\* chart of its own.
SampleUniform(owned) ==
    /\ ~traversal.active
    /\ charts_ >= 1
    /\ charts_' = IF ~owned /\ charts_ < MaxCharts THEN charts_ + 1
                  ELSE charts_
    /\ UNCHANGED traversal
    /\ UNCHANGED vertexVars
    /\ UNCHANGED checkerVars

SampleUniformNear(owned) ==
    /\ ~traversal.active
    /\ charts_ >= 1
    /\ charts_' = IF ~owned /\ charts_ < MaxCharts THEN charts_ + 1
                  ELSE charts_
    /\ UNCHANGED traversal
    /\ UNCHANGED vertexVars
    /\ UNCHANGED checkerVars

\* A caller enters followManifold(from, to, interpolate, stateList) with two
\* states of the atlas, d apart; from lies in a chart.
FollowManifold(d, interpolate, hasList) ==
    /\ ~traversal.active
    /\ charts_ >= 1
    /\ traversal' = StartTraversal(d, interpolate, hasList)
    /\ UNCHANGED charts_
    /\ UNCHANGED vertexVars
    /\ UNCHANGED checkerVars

\* The call makes its next pass of the loop.  The exploration follows a call
\* up to the distance the longest traversal may accumulate.
Traverse ==
    /\ traversal.active
    /\ traversal.travelled <= lambda_ * MaxDist
    /\ \E psi \in BOOLEAN, valid \in BOOLEAN, owned \in BOOLEAN :
       \E len \in StepLens(traversal.toGo) :
       \E newDist \in NewDists(traversal.toGo, len) :
          /\ traversal' = followManifold(traversal, psi, len, newDist, valid)
          /\ charts_' = ChartsAfter(psi, len, owned)
    /\ UNCHANGED vertexVars
    /\ UNCHANGED checkerVars

InitAtlas ==
    /\ VerticesMade({FALSE}, {0})
    /\ CheckerIdle
    /\ AtlasIdle

NextAtlas ==
    \/ NewChart
    \/ \E owned \in BOOLEAN : SampleUniform(owned)
    \/ \E owned \in BOOLEAN : SampleUniformNear(owned)
    \/ \E d \in 0..MaxDist, interpolate \in BOOLEAN, hasList \in BOOLEAN :
          FollowManifold(d, interpolate, hasList)
    \/ Traverse

SpecAtlas == InitAtlas /\ [][NextAtlas]_vars

\* A call in progress is not kept from its next pass: the loop waits for
\* nothing.
SpecAtlasFair == SpecAtlas /\ WF_vars(Traverse)

\* ------------------------------------------------------------------ claims
Listed(p, v) == \E i \in 1..Len(childWPtrs_[p]) : childWPtrs_[p][i] = v

\* v's stored cost and depth are the ones its parent's stored values give.
UpToDate(v) ==
    /\ cost_[v] = combineCosts(cost_[parentSPtr_[v]], edgeCost_[v])
    /\ depth_[v] = depth_[parentSPtr_[v]] + 1

ChildrenOf(S) ==
    UNION {{childWPtrs_[x][i] : i \in 1..Len(childWPtrs_[x])} : x \in S}

RECURSIVE Grow(_, _)
Grow(S, n) == IF n = 0 THEN S ELSE Grow(S \cup ChildrenOf(S), n - 1)

Descendants(v) == Grow(ChildrenOf({v}), MaxVertices)

\* What C2 promises of v after v.addParent(p, e).
AddParentPost(v, p, e) ==
    /\ parentSPtr_'[v] = p
    /\ edgeCost_'[v] = e
    /\ cost_'[v] = combineCosts(cost_'[p], e)
    /\ depth_'[v] = depth_'[p] + 1

AddParentPre(v, p) ==
    /\ ~isPruned_[v] /\ ~isRoot(v) /\ ~hasParent(Heap, v)
    /\ ~isPruned_[p] /\ isInTree(Heap, p)

\* C2 (as stated): for a non-pruned, non-root vertex v without a parent and a
\* parent p that is in the tree, addParent(p, e) leaves v with parent p, edge
\* cost e, cost combineCosts(p.cost, e) and depth p.depth + 1.
C2_Original ==
    [][\A v \in made, p \in made, e \in EdgeCosts :
          (/\ lastOp'.op = "addParent" /\ lastOp'.self = v /\ lastOp'.other = p
           /\ AddParentPre(v, p)
           /\ AddParent(v, p, e, TRUE))
              => AddParentPost(v, p, e)]_vars

\* C2 (amended): the same when p is not reachable from v through the child
\* lists and the cascade comes to an end.
C2_AddParent ==
    [][\A v \in made, p \in made, e \in EdgeCosts :
          (/\ lastOp'.op = "addParent" /\ lastOp'.self = v /\ lastOp'.other = p
           /\ lastOp'.res # "overflow"
           /\ AddParentPre(v, p)
           /\ p \notin Descendants(v)
           /\ AddParent(v, p, e, TRUE))
              => AddParentPost(v, p, e)]_vars

\* addParent has returned on a vertex that now hangs, with a child of its
\* own, under a parent of finite cost.
C2_Witness ==
    /\ lastOp.op = "addParent" /\ lastOp.res = "ok"
    /\ parentSPtr_[lastOp.self] = lastOp.other
    /\ lastOp.other # lastOp.self
    /\ isInTree(Heap, lastOp.other)
    /\ cost_[lastOp.other] # infiniteCost
    /\ cost_[lastOp.self] = cost_[lastOp.other] + edgeCost_[lastOp.self]
    /\ depth_[lastOp.self] = depth_[lastOp.other] + 1
    /\ hasChildren(Heap, lastOp.self)

\* The descendants of v along child lists that the parent pointers mirror:
\* each one is a non-root vertex whose parent is the vertex that lists it.
MirroredChildrenOf(S) ==
    UNION {{c \in ChildrenOf({x}) : parentSPtr_[c] = x /\ ~isRoot(c)} : x \in S}

RECURSIVE GrowMirrored(_, _)
GrowMirrored(S, n) ==
    IF n = 0 THEN S ELSE GrowMirrored(S \cup MirroredChildrenOf(S), n - 1)

MirroredDescendants(v) == GrowMirrored(MirroredChildrenOf({v}), MaxVertices)

RemoveParentPre(v) == ~isPruned_[v] /\ ~isRoot(v) /\ hasParent(Heap, v)

RemoveParentOwnPost(v) ==
    /\ parentSPtr_'[v] = NoVertex
    /\ cost_'[v] = infiniteCost
    /\ depth_'[v] = 0

\* C3 (as stated): for a non-root vertex v that has a parent, removeParent
\* with the cascade on leaves v without a parent, with infinite cost and
\* stored depth 0, and every descendant of v through the child lists with
\* infinite cost.
C3_Original ==
    [][\A v \in made :
          (/\ lastOp'.op = "removeParent" /\ lastOp'.self = v
           /\ RemoveParentPre(v)
           /\ RemoveParent(v, TRUE))
              => /\ RemoveParentOwnPost(v)
                 /\ \A d \in Descendants(v) : cost_'[d] = infiniteCost]_vars

\* C3 (amended): unless the cascade fails to end, v is left without a parent,
\* with infinite cost and stored depth 0; and when the call returns, every
\* descendant reached through child lists that the parent pointers mirror
\* (non-root children whose parent is the listing vertex) has infinite cost.
C3_RemoveParent ==
    [][\A v \in made :
          (/\ lastOp'.op = "removeParent" /\ lastOp'.self = v
           /\ lastOp'.res # "overflow"
           /\ RemoveParentPre(v)
           /\ RemoveParent(v, TRUE))
              => /\ RemoveParentOwnPost(v)
                 /\ lastOp'.res = "ok" =>
                        \A d \in MirroredDescendants(v) :
                            cost_'[d] = infiniteCost]_vars

\* removeParent has returned on a vertex that has a mirrored child, and the
\* child's cost is infinite although its parent and edge cost are in place.
C3_Witness ==
    /\ lastOp.op = "removeParent" /\ lastOp.res = "ok"
    /\ ~hasParent(Heap, lastOp.self)
    /\ cost_[lastOp.self] = infiniteCost
    /\ \E d \in MirroredDescendants(lastOp.self) :
          /\ edgeCost_[d] # infiniteCost
          /\ cost_[d] = infiniteCost

\* The combined edge costs, and the number of edges, on the way up the parent
\* pointers par from d to a.
RECURSIVE PathCost(_, _, _, _, _)
PathCost(par, ec, d, a, n) ==
    IF d = a \/ n = 0 THEN identityCost
    ELSE combineCosts(PathCost(par, ec, par[d], a, n - 1), ec[d])

RECURSIVE PathLen(_, _, _, _)
PathLen(par, d, a, n) ==
    IF d = a \/ n = 0 THEN 0 ELSE PathLen(par, par[d], a, n - 1) + 1

\* After a was given the parent r with edge cost e: a and its descendants
\* carry the costs and depths of their paths from r.
ReparentPost(a, r, e) ==
    /\ cost_'[a] = combineCosts(cost_'[r], e)
    /\ depth_'[a] = depth_'[r] + 1
    /\ \A d \in MirroredDescendants(a) :
          /\ cost_'[d] = combineCosts(combineCosts(cost_'[r], e),
                              PathCost(parentSPtr_', edgeCost_', d, a, MaxVertices))
          /\ depth_'[d] = depth_'[r] + 1 + PathLen(parentSPtr_', d, a, MaxVertices)

\* C4 (as stated): when a vertex a with descendants has had its parent removed
\* and is given a new parent r' with edge cost e' (cascade on), a.cost is
\* combineCosts(r'.cost, e') and every descendant's cost and depth are those
\* of its path from r'.
C4_Original ==
    [][(/\ pending.op = "rewire_addParent" /\ lastOp'.op = "addParent"
        /\ pending.p # pending.v
        /\ MirroredDescendants(pending.v) # {})
          => ReparentPost(pending.v, pending.p, pending.e)]_vars

\* C4 (amended): the same when r' is in the tree and is not one of a's
\* descendants.
C4_Reparent ==
    [][(/\ pending.op = "rewire_addParent" /\ lastOp'.op = "addParent"
        /\ MirroredDescendants(pending.v) # {}
        /\ isInTree(Heap, pending.p)
        /\ pending.p \notin Descendants(pending.v))
          => ReparentPost(pending.v, pending.p, pending.e)]_vars

\* A vertex with a child has been rewired: its new cost is finite and its
\* child carries that cost combined with its own edge cost, at depth 2.
C4_Witness ==
    /\ pending.op = "rewire_addChild"
    /\ lastOp.op = "addParent" /\ lastOp.res = "ok"
    /\ cost_[pending.v] # infiniteCost
    /\ \E b \in MirroredDescendants(pending.v) :
          /\ cost_[b] = cost_[pending.v] + edgeCost_[b]
          /\ depth_[b] = 2

\* C5 (as stated): in every reachable state no vertex is a root and has a
\* parent, so each vertex is in exactly one of the states root, has-parent,
\* disconnected, whatever calls are made.
C5_Original ==
    \A v \in made : ~(isRoot(v) /\ hasParent(Heap, v))

\* C5 (amended): the same in a build that defines BITSTAR_DEBUG.
C5_ExactlyOneState ==
    debug => \A v \in made : ~(isRoot(v) /\ hasParent(Heap, v))

\* addParent was called on a root, raised, and the root has no parent.
C5_Witness ==
    /\ debug
    /\ lastOp.op = "addParent" /\ lastOp.res = "throw"
    /\ isRoot(lastOp.self) /\ ~hasParent(Heap, lastOp.self)
    /\ \E w \in made : ~isRoot(w) /\ hasParent(Heap, w)
    /\ \E w \in made : ~isRoot(w) /\ ~hasParent(Heap, w)

\* C6: in every reachable state a root has cost identityCost and depth 0, and
\* a non-root vertex without a parent has cost infiniteCost.
C6_RootAndDisconnectedCost ==
    \A v \in made :
        /\ isRoot(v) => (cost_[v] = identityCost /\ depth_[v] = 0)
        /\ (~isRoot(v) /\ ~hasParent(Heap, v)) => cost_[v] = infiniteCost

\* A vertex that hung under a root has had its parent removed again, after a
\* cascade ran over the root.
C6_Witness ==
    /\ lastOp.op = "removeParent" /\ lastOp.res = "ok"
    /\ ~isRoot(lastOp.self) /\ ~hasParent(Heap, lastOp.self)
    /\ edgeCost_[lastOp.self] # infiniteCost
    /\ cost_[lastOp.self] = infiniteCost
    /\ \E r \in made : isRoot(r) /\ cost_[r] = identityCost /\ Listed(r, r)

\* C7 (as stated): in every reachable state, for vertices v and w in the tree
\* with v an ancestor of w along parent pointers, v.depth < w.depth.
RECURSIVE Ancestors(_, _)
Ancestors(w, n) ==
    IF n = 0 \/ ~hasParent(Heap, w) THEN {}
    ELSE {parentSPtr_[w]} \cup Ancestors(parentSPtr_[w], n - 1)

RECURSIVE Preorder(_, _)
RECURSIVE PreorderKids(_, _, _)
Preorder(v, n) ==
    IF n = 0 THEN << >> ELSE <<v>> \o PreorderKids(v, 1, n - 1)

PreorderKids(v, i, n) ==
    IF i > Len(childWPtrs_[v]) THEN << >>
    ELSE Preorder(childWPtrs_[v][i], n) \o PreorderKids(v, i + 1, n)

\* The runs of the last call's cascade that ran to their end.
Finished ==
    IF lastOp.res = "throw" THEN 1..(Len(lastOp.trace) - 1)
    ELSE 1..Len(lastOp.trace)

\* The last call's cascade went depth-first, each vertex before its children.
DepthFirst ==
    lastOp.trace # << >> =>
        LET walk == Preorder(lastOp.trace[1].v, MaxVertices)
        IN  /\ Len(lastOp.trace) <= Len(walk)
            /\ \A k \in 1..Len(lastOp.trace) : lastOp.trace[k].v = walk[k]
            /\ lastOp.res = "ok" => Len(lastOp.trace) = Len(walk)
            /\ \A i \in 2..Len(lastOp.trace) :
                  \E j \in 1..(i - 1) :
                      /\ lastOp.trace[j].v = lastOp.trace[i].from
                      /\ Listed(lastOp.trace[i].from, lastOp.trace[i].v)

\* Run i of the cascade computed its vertex's values from what the latest
\* earlier run on the vertex's parent wrote.
FromUpdatedParent(i) ==
    LET c == lastOp.trace[i].v
        p == parentSPtr_[c]
        earlier == {j \in 1..(i - 1) : lastOp.trace[j].v = p}
    IN  /\ earlier # {}
        /\ LET j == CHOOSE k \in earlier : \A m \in earlier : m <= k
           IN  /\ lastOp.trace[i].cost =
                      combineCosts(lastOp.trace[j].cost, edgeCost_[c])
               /\ lastOp.trace[i].depth = lastOp.trace[j].depth + 1

\* C8 (as stated): one cascading updateCostAndDepth visits the subtree
\* depth-first, each vertex before its children, and every child computes
\* its cost and depth from its parent's already-updated values.
C8_Original ==
    /\ DepthFirst
    /\ \A i \in Finished :
          (/\ i >= 2
           /\ ~isRoot(lastOp.trace[i].v)
           /\ hasParent(Heap, lastOp.trace[i].v)) => FromUpdatedParent(i)

\* C8 (amended): the same, for every child whose parent pointer is the
\* vertex that told it to update.
C8_ParentsFirst ==
    /\ DepthFirst
    /\ \A i \in Finished :
          (/\ i >= 2
           /\ ~isRoot(lastOp.trace[i].v)
           /\ parentSPtr_[lastOp.trace[i].v] = lastOp.trace[i].from)
              => FromUpdatedParent(i)

\* addParent gave a vertex a finite cost and the cascade went on to a child
\* of it, which computed its cost and depth from the vertex's new ones.
C8_Witness ==
    /\ lastOp.op = "addParent" /\ lastOp.res = "ok"
    /\ Len(lastOp.trace) >= 2
    /\ lastOp.trace[2].from = lastOp.trace[1].v
    /\ parentSPtr_[lastOp.trace[2].v] = lastOp.trace[1].v
    /\ ~isRoot(lastOp.trace[2].v)
    /\ lastOp.trace[1].cost # infiniteCost
    /\ lastOp.trace[2].cost =
           lastOp.trace[1].cost + edgeCost_[lastOp.trace[2].v]
    /\ lastOp.trace[2].depth = lastOp.trace[1].depth + 1

\* Every public operation on v other than isPruned and markUnpruned raises
\* and changes nothing, isPruned returns true and markUnpruned succeeds.
Inert(v) ==
    /\ \A accessor \in Accessors : Throws(accessor, Heap, v)
    /\ \A p \in made, e \in EdgeCosts, c \in BOOLEAN :
          addParent(Heap, v, p, e, c) = Outcome(Heap, "throw", << >>)
    /\ \A c \in BOOLEAN :
          removeParent(Heap, v, c) = Outcome(Heap, "throw", << >>)
    /\ \A w \in made, c \in BOOLEAN :
          /\ addChild(Heap, v, w, c) = Outcome(Heap, "throw", << >>)
          /\ removeChild(Heap, v, w, c) = Outcome(Heap, "throw", << >>)
    /\ markPruned(Heap, v) = Outcome(Heap, "throw", << >>)
    /\ isPruned(Heap, v)
    /\ markUnpruned(Heap, v).res = "ok"
    /\ ~isPruned(markUnpruned(Heap, v).h, v)

\* C9 (as stated): after markPruned on a vertex, every public operation on
\* it other than isPruned and markUnpruned raises a programming error, while
\* isPruned returns true and markUnpruned succeeds.
C9_Original ==
    \A v \in made : isPruned_[v] => Inert(v)

\* C9 (amended): the same in a build that defines BITSTAR_DEBUG.
C9_PrunedIsInert ==
    debug => \A v \in made : isPruned_[v] => Inert(v)

\* A second markPruned on a pruned vertex has raised, and the vertex is
\* still pruned.
C9_Witness ==
    /\ debug
    /\ lastOp.op = "markPruned" /\ lastOp.res = "throw"
    /\ isPruned_[lastOp.self]

\* C10 (as stated): addParent called on a root vertex, or on a vertex that
\* already has a parent, raises and does not store the new parent.
C10_Original ==
    [][\A v \in made :
          (/\ lastOp'.op = "addParent" /\ lastOp'.self = v
           /\ calls' = calls + 1
           /\ (isRoot(v) \/ hasParent(Heap, v)))
              => /\ lastOp'.res = "throw"
                 /\ parentSPtr_' = parentSPtr_
                 /\ edgeCost_' = edgeCost_]_vars

\* C10 (amended): the same in a build that defines BITSTAR_DEBUG.
C10_AddParentRejects ==
    [][\A v \in made :
          (/\ debug
           /\ lastOp'.op = "addParent" /\ lastOp'.self = v
           /\ calls' = calls + 1
           /\ (isRoot(v) \/ hasParent(Heap, v)))
              => /\ lastOp'.res = "throw"
                 /\ parentSPtr_' = parentSPtr_
                 /\ edgeCost_' = edgeCost_]_vars

\* addParent on a non-pruned vertex that has a parent has raised, and the
\* vertex still has the parent it had, not the one the call named.
C10_Witness ==
    /\ debug
    /\ lastOp.op = "addParent" /\ lastOp.res = "throw"
    /\ ~isPruned_[lastOp.self] /\ ~isRoot(lastOp.self)
    /\ hasParent(Heap, lastOp.self)
    /\ parentSPtr_[lastOp.self] # lastOp.other

\* C11 (as stated): removeParent called on a vertex that has no parent (a
\* root or a disconnected vertex) raises.
C11_Original ==
    [][\A v \in made :
          (/\ lastOp'.op = "removeParent" /\ lastOp'.self = v
           /\ calls' = calls + 1
           /\ ~hasParent(Heap, v))
              => lastOp'.res = "throw"]_vars

\* C11 (amended): the same in a build that defines BITSTAR_DEBUG; the call
\* then changes no member.
C11_RemoveParentRejects ==
    [][\A v \in made :
          (/\ debug
           /\ lastOp'.op = "removeParent" /\ lastOp'.self = v
           /\ calls' = calls + 1
           /\ ~hasParent(Heap, v))
              => /\ lastOp'.res = "throw"
                 /\ UNCHANGED fields]_vars

\* removeParent on a non-pruned vertex without a parent has raised.
C11_Witness ==
    /\ debug
    /\ lastOp.op = "removeParent" /\ lastOp.res = "throw"
    /\ ~isPruned_[lastOp.self]
    /\ ~hasParent(Heap, lastOp.self)
    /\ \E w \in made : hasParent(Heap, w)

\* How many entries of a child list carry the id.
IdCount(kids, id) ==
    Cardinality({i \in 1..Len(kids) : vId_[kids[i]] = id})

Ids == {vId_[v] : v \in Vertices}

\* The list after holds, id by id, what the list before held, less one
\* entry with c's id.
OneLess(before, after, c) ==
    /\ Len(after) = Len(before) - 1
    /\ \A id \in Ids :
          IdCount(after, id) =
              IdCount(before, id) - (IF id = vId_[c] THEN 1 ELSE 0)

SameIds(before, after) ==
    /\ Len(after) = Len(before)
    /\ \A id \in Ids : IdCount(after, id) = IdCount(before, id)

\* Every call v.addChild(c) followed by v.removeChild(c), both returning,
\* leaves v's child list with the size and the ids it had.
AddThenRemoveRestores ==
    \A v \in made, c \in made, a \in BOOLEAN, b \in BOOLEAN :
        LET r1 == addChild(Heap, v, c, a)
            r2 == removeChild(r1.h, v, c, b)
        IN  (r1.res = "ok" /\ r2.res = "ok")
                => SameIds(childWPtrs_[v], r2.h.children[v])

\* C12: removeChild(c) that returns on a list holding c removes exactly one
\* entry with c's id and leaves the ids of the remaining entries as they
\* were, so addChild(c) followed by removeChild(c) restores the child list's
\* size and ids.
C12_ChildMultiset ==
    /\ []AddThenRemoveRestores
    /\ [][\A v \in made, c \in made :
             (/\ lastOp'.op = "removeChild"
              /\ lastOp'.self = v /\ lastOp'.other = c
              /\ calls' = calls + 1
              /\ lastOp'.res = "ok"
              /\ Listed(v, c))
                 => /\ OneLess(childWPtrs_[v], childWPtrs_'[v], c)
                    /\ \A w \in made \ {v} :
                          childWPtrs_'[w] = childWPtrs_[w]]_vars

\* removeChild has returned and left another child in the list.
C12_Witness ==
    /\ lastOp.op = "removeChild" /\ lastOp.res = "ok"
    /\ Len(childWPtrs_[lastOp.self]) = 1
    /\ childWPtrs_[lastOp.self][1] # lastOp.other

\* C13 (as stated): removeChild(c) on a vertex whose child list holds no
\* entry with c's id raises and leaves the child list unchanged.
C13_Original ==
    [][\A v \in made, c \in made :
          (/\ lastOp'.op = "removeChild"
           /\ lastOp'.self = v /\ lastOp'.other = c
           /\ calls' = calls + 1
           /\ ~isPruned_[v] /\ ~isPruned_[c]
           /\ ~(\E x \in Descendants(c) \cup {c} : Listed(x, c))
           /\ ~Listed(v, c))
              => /\ lastOp'.res = "throw"
                 /\ childWPtrs_' = childWPtrs_]_vars

\* C13 (amended): the same in a build that defines BITSTAR_DEBUG, for a call
\* whose cascade on c comes to an end.
C13_RemoveChildRejects ==
    [][\A v \in made, c \in made :
          (/\ debug
           /\ lastOp'.op = "removeChild"
           /\ lastOp'.self = v /\ lastOp'.other = c
           /\ calls' = calls + 1
           /\ lastOp'.res # "overflow"
           /\ ~Listed(v, c))
              => /\ lastOp'.res = "throw"
                 /\ childWPtrs_' = childWPtrs_]_vars

\* removeChild of a vertex that is not in the list has raised on a
\* non-pruned vertex that has another child.
C13_Witness ==
    /\ debug
    /\ lastOp.op = "removeChild" /\ lastOp.res = "throw"
    /\ ~isPruned_[lastOp.self] /\ ~isPruned_[lastOp.other]
    /\ ~Listed(lastOp.self, lastOp.other)
    /\ childWPtrs_[lastOp.self] # << >>
    /\ ~isPruned_[childWPtrs_[lastOp.self][1]]

\* The accessors that need a parent raise on v when it has none, and getDepth
\* raises on v when it is disconnected and returns 0 when it is a root.
MeaninglessRaise(v) ==
    /\ ~hasParent(Heap, v) =>
          /\ Throws("getParent", Heap, v)
          /\ Throws("getParentConst", Heap, v)
          /\ Throws("getEdgeInCost", Heap, v)
    /\ (~isRoot(v) /\ ~hasParent(Heap, v)) => Throws("getDepth", Heap, v)
    /\ isRoot(v) => (~Throws("getDepth", Heap, v) /\ getDepth(Heap, v) = 0)

\* C16 (as stated): getParent, getParentConst and getEdgeInCost raise
\* whenever the vertex has no parent, and getDepth raises on a non-root
\* vertex without a parent while returning 0 on a root.
C16_Original ==
    \A v \in made : MeaninglessRaise(v)

\* C16 (amended): the same in a build that defines BITSTAR_DEBUG, the root
\* on which getDepth returns 0 being a non-pruned one.
C16_MeaninglessAccessors ==
    debug =>
        \A v \in made :
            /\ ~hasParent(Heap, v) =>
                  /\ Throws("getParent", Heap, v)
                  /\ Throws("getParentConst", Heap, v)
                  /\ Throws("getEdgeInCost", Heap, v)
            /\ (~isRoot(v) /\ ~hasParent(Heap, v)) =>
                  Throws("getDepth", Heap, v)
            /\ (isRoot(v) /\ ~isPruned_[v]) =>
                  (~Throws("getDepth", Heap, v) /\ getDepth(Heap, v) = 0)

\* A vertex has lost its parent again and a cascade has run over a root
\* that lists itself: the accessors raise on the first and getDepth returns
\* 0 on the second.
C16_Witness ==
    /\ debug
    /\ \E v \in made :
          /\ ~isPruned_[v] /\ ~isRoot(v) /\ ~hasParent(Heap, v)
          /\ edgeCost_[v] # infiniteCost
          /\ Throws("getParent", Heap, v) /\ Throws("getDepth", Heap, v)
    /\ \E r \in made :
          /\ isRoot(r) /\ ~isPruned_[r] /\ childWPtrs_[r] # << >>
          /\ ~Throws("getDepth", Heap, r) /\ getDepth(Heap, r) = 0

\* C14: once a vertex has been destroyed no other vertex's child list holds
\* a back-reference to it.
C14_NoExpiredBackReference ==
    \A p \in made : \A i \in 1..Len(childWPtrs_[p]) :
        ~expired(childWPtrs_[p][i])

HasExpired(v) ==
    \E i \in 1..Len(childWPtrs_[v]) : expired(childWPtrs_[v][i])

\* removeChild(c) on v meets an expired entry before one with c's id.
ScanMeetsExpired(v, c) ==
    \E i \in 1..Len(childWPtrs_[v]) :
        /\ expired(childWPtrs_[v][i])
        /\ \A j \in 1..(i - 1) : vId_[childWPtrs_[v][j]] # vId_[c]

\* The last call was a cascading one.
CascadingStep ==
    \/ \E v \in made, p \in made, e \in EdgeCosts : AddParent(v, p, e, TRUE)
    \/ \E v \in made : RemoveParent(v, TRUE)
    \/ \E v \in made, c \in made : AddChild(v, c, TRUE)
    \/ \E v \in made, c \in made : RemoveChild(v, c, TRUE)

\* No call dies on an expired entry; getChildren and getChildrenConst raise
\* on a list that holds one; removeChild raises, and leaves the members
\* alone, when its scan meets one; and a cascade that returns has met none.
ExpiredRaises ==
    /\ \A v \in made :
          (~isPruned_[v] /\ HasExpired(v)) =>
              /\ Throws("getChildren", Heap, v)
              /\ Throws("getChildrenConst", Heap, v)
    /\ lastOp'.res # "crash"
    /\ \A v \in made, c \in made :
          (/\ lastOp'.op = "removeChild"
           /\ lastOp'.self = v /\ lastOp'.other = c
           /\ calls' = calls + 1
           /\ ScanMeetsExpired(v, c))
              => (lastOp'.res = "throw" /\ UNCHANGED fields)
    /\ (CascadingStep /\ lastOp'.res = "ok") =>
          \A k \in 1..Len(lastOp'.trace) :
              \A i \in 1..Len(childWPtrs_'[lastOp'.trace[k].v]) :
                  ~expired(childWPtrs_'[lastOp'.trace[k].v][i])

\* C15 (as stated): whenever getChildren, getChildrenConst, removeChild or a
\* cascading updateCostAndDepth meets an expired child back-reference, the
\* operation raises and neither returns nor dereferences the reference.
C15_Original ==
    [][ExpiredRaises]_vars

\* C15 (amended): the same in a build that defines BITSTAR_DEBUG.
C15_ExpiredRaises ==
    [][debug => ExpiredRaises]_vars

\* A cascade, or the scan of removeChild, has met an expired entry and
\* raised.
C15_Witness ==
    /\ debug
    /\ lastOp.res = "throw"
    /\ ~isPruned_[lastOp.self]
    /\ \/ /\ lastOp.op = "removeChild"
          /\ ScanMeetsExpired(lastOp.self, lastOp.other)
       \/ /\ lastOp.op = "addParent"
          /\ hasParent(Heap, lastOp.self)
          /\ HasExpired(lastOp.self)

\* The integer nearest to time * scalingFactor_, the one farther from zero
\* when two are equally near.
Abs(x) == IF x >= 0 THEN x ELSE -x

Nearest(time) ==
    LET num == time * scalingFactor_
        far == Abs(num) \div TimeDen + 1
    IN  CHOOSE k \in (-far)..far :
            \/ 2 * Abs(k * TimeDen - num) < TimeDen
            \/ /\ 2 * Abs(k * TimeDen - num) = TimeDen
               /\ Abs(k) * TimeDen > Abs(num)

\* The obstacles stored under key k, none when the map has no such key.
StoredUnder(k) ==
    IF k \in DOMAIN dynObstacles_ THEN dynObstacles_[k] ELSE << >>

\* The map with every key other than k taken out.
OnlyKey(k) == [x \in DOMAIN dynObstacles_ \cap {k} |-> dynObstacles_[x]]

\* C17: isValid(state, time) consults only the obstacles stored under the
\* key round(time * scalingFactor) (time 0.37 with scalingFactor 10: key 4);
\* obstacles stored under any other key never affect the result.
C17_TimeKey ==
    lastQuery.asked =>
        /\ lastQuery.key = Nearest(lastQuery.time)
        /\ (lastQuery.time = 37 /\ scalingFactor_ = 10) => lastQuery.key = 4
        /\ Len(lastQuery.consulted) <= Len(StoredUnder(lastQuery.key))
        /\ \A i \in 1..Len(lastQuery.consulted) :
              lastQuery.consulted[i] = StoredUnder(lastQuery.key)[i]
        /\ lastQuery.result =
              isValid(OnlyKey(lastQuery.key), lastQuery.state,
                      lastQuery.time).result

\* The query of time 0.37 with scaling factor 10 found a harmless obstacle
\* under key 4 and answered TRUE, while an obstacle that areStatesValid
\* rejects is stored under another key.
C17_Witness ==
    /\ lastQuery.asked
    /\ lastQuery.time = 37 /\ scalingFactor_ = 10 /\ lastQuery.key = 4
    /\ lastQuery.result
    /\ lastQuery.consulted # << >>
    /\ \E k \in DOMAIN dynObstacles_ \ {4} :
          ~areStatesValid(lastQuery.state, dynObstacles_[k][1])

\* areStatesValid rejects the state against some obstacle stored under the
\* key of the query.
SomeEntryRejects ==
    \E i \in 1..Len(StoredUnder(lastQuery.key)) :
        ~areStatesValid(lastQuery.state, StoredUnder(lastQuery.key)[i])

\* C18 (as stated): when dynamic obstacles are registered, isValid(s, t)
\* returns false if and only if areStatesValid returns false for some entry
\* stored under the key for t.
C18_Original ==
    (lastQuery.asked /\ DOMAIN dynObstacles_ # {}) =>
        (~lastQuery.result <=> SomeEntryRejects)

\* C18 (amended): ... returns false if and only if isValid(s) returns false
\* or areStatesValid returns false for some entry stored under the key.
C18_FalseIffRejected ==
    (lastQuery.asked /\ DOMAIN dynObstacles_ # {}) =>
        (~lastQuery.result <=>
            (~isValidState(lastQuery.state) \/ SomeEntryRejects))

\* The query answered FALSE for a state isValid(s) accepts: the second
\* obstacle under its key is one areStatesValid rejects.
C18_Witness ==
    /\ lastQuery.asked /\ ~lastQuery.result
    /\ isValidState(lastQuery.state)
    /\ Len(lastQuery.consulted) = 2
    /\ areStatesValid(lastQuery.state, lastQuery.consulted[1])
    /\ ~areStatesValid(lastQuery.state, lastQuery.consulted[2])

\* C19: every call of followManifold comes to an end; it ends by returning,
\* never by throwing, with one of the five stop reasons, and what it
\* returns is true exactly when the reason is reached.
Returned == ~traversal.active /\ traversal # NoTraversal
C19_Outcome ==
    /\ traversal.active =>
          traversal.reason = NoReason /\ traversal.result = "none"
    /\ Returned =>
          /\ traversal.reason \in Reasons
          /\ traversal.result \in {"true", "false"}
          /\ traversal.result = "true" <=> traversal.reason = "reached"
C19_Terminates ==
    /\ []C19_Outcome
    /\ traversal.active ~> Returned

\* A call that walked two states on and then gave up for the distance.
C19_Witness ==
    /\ Returned
    /\ traversal.x >= 2
    /\ traversal.reason = "too-far"
    /\ traversal.result = "false"

\* C20: an interpolating call never asks the validity callback and never
\* stops for a collision; a call that does not interpolate has asked the
\* callback about every new state it accepted.
Accepted == 1..traversal.x
C20_CallbackUnlessInterpolating ==
    IF traversal.interpolate
    THEN traversal.checked = {} /\ traversal.reason # "collision"
    ELSE /\ Accepted \subseteq traversal.checked
         /\ \A i \in 1..Len(traversal.stateList) :
               traversal.stateList[i] \in traversal.checked \cup {0}

\* A checking call accepted two states and stopped for a collision at the
\* third.
C20_Witness ==
    /\ Returned
    /\ ~traversal.interpolate
    /\ traversal.x = 2
    /\ traversal.checked = {1, 2, 3}
    /\ traversal.reason = "collision"

\* C21 as stated: whatever the stop reason, the distance a followManifold
\* run has travelled is at most lambda * |to - from| + delta.
C21_Original ==
    traversal.travelled <= lambda_ * traversal.d_straight + delta_

\* C21: whatever the stop reason, the distance a followManifold run has
\* travelled is at most lambda * |to - from| + 2 * delta: the last step is
\* added before the budget is tested and may be as long as 2 * delta.
C21_TravelBound ==
    traversal.travelled <= lambda_ * traversal.d_straight + 2 * delta_

\* A run that had used its whole budget made one more step of 2 * delta.
C21_Witness ==
    /\ Returned
    /\ traversal.d_straight >= 1
    /\ traversal.reason = "too-far"
    /\ traversal.travelled = lambda_ * traversal.d_straight + 2 * delta_

\* The last state a returned call visited: the new state that came within
\* delta of the target when the call reached it, and the state the walker
\* stood on when the call gave up.
FinalVisited ==
    IF traversal.reason = "reached" THEN traversal.x + 1 ELSE traversal.x

\* C22: a call that was given a state list leaves in it, for every stop
\* reason, the states it visited, each stored once as an allocation of its
\* own, with the copy of from first and the final state visited last.
C22_StateListEnds ==
    Returned /\ traversal.hasList =>
        LET list == traversal.stateList
        IN  /\ Len(list) >= 1
            /\ list[1] = 0
            /\ list[Len(list)] = FinalVisited
            /\ \A i, j \in 1..Len(list) : i # j => list[i] # list[j]

\* C23: an interpolating call whose from and to are the same state returns
\* reached, and the trace it leaves holds exactly one state.
C23_SameStateReached ==
    Returned /\ traversal.interpolate /\ traversal.d_straight = 0 =>
        /\ traversal.reason = "reached"
        /\ traversal.result = "true"
        /\ traversal.hasList => Len(traversal.stateList) = 1

\* C24: no call of newChart, sampleUniform, sampleUniformNear or
\* followManifold takes a chart from the atlas: getChartCount never
\* decreases, so every chart 1..charts_ stays in the atlas under its name.
C24_ChartsKept == [][getChartCount' >= getChartCount]_vars

\* The atlas has grown to three charts and a traversal has returned.
C24_Witness ==
    /\ Returned
    /\ traversal.x >= 1
    /\ charts_ = 3

\* C25: every vertex allocates one state at its construction, keeps that
\* state whatever is called on it, and frees it once, at its destruction:
\* the state of a live vertex has never been freed, the state of a destroyed
\* vertex has been freed exactly once, no two vertices hold the same state
\* and no state is allocated without a vertex.
Constructed == {v \in Vertices : state_[v] # 0}
StateFreedAtDestruction ==
    /\ \A v \in Constructed :
          /\ state_[v] \in 1..Len(freeCalls)
          /\ freeCalls[state_[v]] = IF v \in made THEN 0 ELSE 1
    /\ \A v, w \in Constructed : v # w => state_[v] # state_[w]
    /\ Len(freeCalls) = Cardinality(Constructed)
    /\ made \subseteq Constructed
StateKept ==
    \A v \in Constructed : state_'[v] = state_[v]
C25_OneStateFreedOnce ==
    /\ []StateFreedAtDestruction
    /\ [][StateKept]_vars

\* A vertex was constructed, pruned and then destroyed while another one
\* lives on.
C25_Witness ==
    /\ lastOp.op = "destroy"
    /\ freeCalls[state_[lastOp.self]] = 1
    /\ \E w \in made : freeCalls[state_[w]] = 0
    /\ calls >= 4

\* No two vertices ever constructed share an id, and a vertex constructed
\* later (it takes a later place) has the larger id.
IdsUniqueIncreasing ==
    \A v, w \in Constructed :
        /\ v # w => getId(v) # getId(w)
        /\ v < w => getId(v) < getId(w)
\* The id of a vertex stays what it was.
IdKept == \A v \in Constructed : getId(v)' = getId(v)

\* C26 as stated: ids are unique and increase with the order of
\* construction, an id never changes, and getId returns it in every later
\* state of the vertex.
C26_Original ==
    /\ [](IdsUniqueIncreasing /\ \A v \in made : ~getIdThrows(Heap, v))
    /\ [][IdKept]_vars

\* C26: ids are unique and increase with the order of construction, an id
\* never changes, and getId returns it in every later state of the vertex
\* but those in which the vertex is pruned and the build defines
\* BITSTAR_DEBUG, where it raises.
C26_IdsImmutableUnique ==
    /\ [](/\ IdsUniqueIncreasing
          /\ \A v \in made : getIdThrows(Heap, v) <=> debug /\ isPruned_[v])
    /\ [][IdKept]_vars

\* Three vertices have been made, one of them is pruned and one is gone.
C26_Witness ==
    /\ Constructed = Vertices
    /\ \E v \in made : isPruned_[v]
    /\ made # Vertices

\* The child lists mirror the parent pointers.
Mirrored == \A p, v \in made : Listed(p, v) <=> parentSPtr_[v] = p
\* Every vertex with a parent carries the cost and depth its parent gives.
CostCascade == \A v \in made : hasParent(Heap, v) => UpToDate(v)
\* The chain of v's parents ends at a root.
RECURSIVE EndsAtRoot(_, _)
EndsAtRoot(v, n) ==
    IF isRoot(v) THEN TRUE
    ELSE IF n = 0 \/ parentSPtr_[v] = NoVertex THEN FALSE
    ELSE EndsAtRoot(parentSPtr_[v], n - 1)
FiniteOnlyRooted ==
    \A v \in made : cost_[v] # infiniteCost => EndsAtRoot(v, MaxVertices)
\* The planner is between two pairs and every pair so far was completed.
PairsCompleted == Idle /\ Running /\ ~raised

OwnValuesOnly(v) ==
    \A w \in Vertices :
        /\ w # v => /\ parentSPtr_'[w] = parentSPtr_[w]
                    /\ edgeCost_'[w] = edgeCost_[w]
                    /\ cost_'[w] = cost_[w]
                    /\ depth_'[w] = depth_[w]
        /\ childWPtrs_'[w] = childWPtrs_[w]
        /\ isPruned_'[w] = isPruned_[w]
\* Nothing but v's child list changes.
ChildListOnly(v) ==
    \A w \in Vertices :
        /\ parentSPtr_'[w] = parentSPtr_[w]
        /\ edgeCost_'[w] = edgeCost_[w]
        /\ cost_'[w] = cost_[w]
        /\ depth_'[w] = depth_[w]
        /\ isPruned_'[w] = isPruned_[w]
        /\ w # v => childWPtrs_'[w] = childWPtrs_[w]
\* The step is the call named by lastOp', made with the cascade disabled.
NoCascadeFrame ==
    LET v == lastOp'.self
        o == lastOp'.other
    IN  CASE lastOp'.op = "addParent" ->
                 (\E e \in EdgeCosts : AddParent(v, o, e, FALSE))
                     => OwnValuesOnly(v)
          [] lastOp'.op = "removeParent" ->
                 RemoveParent(v, FALSE) => OwnValuesOnly(v)
          [] lastOp'.op = "addChild" ->
                 AddChild(v, o, FALSE) => ChildListOnly(v)
          [] lastOp'.op = "removeChild" ->
                 RemoveChild(v, o, FALSE) => ChildListOnly(v)
          [] OTHER -> TRUE

\* C28: with the cascade disabled, addParent and removeParent change only
\* the vertex's own parent, edge cost, cost and depth, and addChild and
\* removeChild change only the vertex's child list; no other vertex's cost
\* or depth changes.
C28_NoCascadeFrame == [][NoCascadeFrame]_vars

\* addParent has just given a vertex a finite cost and left the child it
\* lists with the infinite cost it had.
C28_Witness ==
    /\ lastOp.op = "addParent" /\ lastOp.res = "ok"
    /\ cost_[lastOp.self] # infiniteCost
    /\ \E c \in made :
          /\ Listed(lastOp.self, c) /\ parentSPtr_[c] = lastOp.self
          /\ ~isRoot(c) /\ cost_[c] = infiniteCost

\* The planner's change of v's parent to p2 over an edge of cost e, from the
\* members h: the four calls of an unlink and a link, the cascade as casc.
Reparent(h, v, p2, e, casc) ==
    LET r1 == removeChild(h, h.parent[v], v, casc)
        r2 == IF r1.res = "ok" THEN removeParent(r1.h, v, casc) ELSE r1
        r3 == IF r2.res = "ok" THEN addParent(r2.h, v, p2, e, casc) ELSE r2
    IN  IF r3.res = "ok" THEN addChild(r3.h, p2, v, casc) ELSE r3
\* A sequence of one or two changes of v's parent.
ReparentAll(h, v, seq, casc) ==
    LET r1 == Reparent(h, v, seq[1][1], seq[1][2], casc)
    IN  IF Len(seq) = 1 \/ r1.res # "ok"
        THEN r1
        ELSE Reparent(r1.h, v, seq[2][1], seq[2][2], casc)
\* The changes with the cascade disabled, then one cascading update from v,
\* the top of the subtree they affect.
Batched(h, v, seq) ==
    LET b == ReparentAll(h, v, seq, FALSE)
    IN  IF b.res = "ok"
        THEN updateCostAndDepth(Outcome(b.h, "ok", << >>), v, TRUE, << >>)
        ELSE b
Eager(h, v, seq) == ReparentAll(h, v, seq, TRUE)
\* The vertices whose parent the planner may change, and the changes.
Movable == {v \in made : CanRemoveParent(v) /\ CanRemoveChild(parentSPtr_[v], v)}
ChangeSeqs ==
    LET one == made \X EdgeCosts
    IN  {<<c>> : c \in one} \cup {<<c, d>> : c \in one, d \in one}
SameValues(a, b) == a.h.cost = b.h.cost /\ a.h.depth = b.h.depth

\* C29 as stated: a sequence of parent changes made with the cascade
\* disabled and followed by one cascading update from the top of the
\* affected subtree leaves every vertex with the cost and depth that the
\* same changes leave when made with the cascade enabled.
C29_Original ==
    PairsCompleted =>
        \A v \in Movable, seq \in ChangeSeqs :
            Batched(Heap, v, seq).res = "ok" =>
                /\ Eager(Heap, v, seq).res = "ok"
                /\ SameValues(Eager(Heap, v, seq), Batched(Heap, v, seq))

\* C29: whenever the changes made with the cascade enabled end without
\* raising, the same changes made with the cascade disabled and followed by
\* one cascading update from the top of the affected subtree end without
\* raising too and leave every vertex with the same cost and depth; in a
\* build that defines BITSTAR_DEBUG the changes made with the cascade
\* enabled raise when the vertex has children.
C29_BatchedAgrees ==
    PairsCompleted =>
        \A v \in Movable, seq \in ChangeSeqs :
            /\ Eager(Heap, v, seq).res = "ok" =>
                  /\ Batched(Heap, v, seq).res = "ok"
                  /\ SameValues(Eager(Heap, v, seq), Batched(Heap, v, seq))
            /\ debug /\ hasChildren(Heap, v) =>
                  Eager(Heap, v, seq).res = "throw"

\* A vertex with a child can be moved, both ways end without raising and
\* the move changes the child's cost.
C29_Witness ==
    /\ PairsCompleted
    /\ \E v \in Movable, seq \in ChangeSeqs, c \in made :
          /\ Listed(v, c) /\ parentSPtr_[c] = v
          /\ Eager(Heap, v, seq).res = "ok"
          /\ Batched(Heap, v, seq).res = "ok"
          /\ Batched(Heap, v, seq).h.cost[c] # cost_[c]
          /\ Batched(Heap, v, seq).h.cost[c] # infiniteCost

\* A vertex that is not the root, has no parent and has a child.
DisconnectedWithChildren(h, v) ==
    ~isRoot(v) /\ ~hasParent(h, v) /\ hasChildren(h, v)

\* The call raised and no vertex other than v has a new cost or depth.
RaisedNotPropagated(v) ==
    /\ lastOp'.res = "throw"
    /\ \A w \in made \ {v} : cost_'[w] = cost_[w] /\ depth_'[w] = depth_[w]

\* In a build that defines BITSTAR_DEBUG a cascading update of a vertex that
\* is not the root, has no parent and has a child throws after the vertex
\* alone was visited.
CascadeFromDisconnectedThrows ==
    debug =>
        \A v \in made :
            DisconnectedWithChildren(Heap, v) =>
                LET r == updateCostAndDepth(Outcome(Heap, "ok", << >>), v,
                                            TRUE, << >>)
                IN  /\ r.res = "throw"
                    /\ Len(r.trace) <= 1
                    /\ \A w \in made \ {v} :
                          /\ r.h.cost[w] = cost_[w]
                          /\ r.h.depth[w] = depth_[w]

\* removeParent(true) of a vertex with a child, and addChild(c, true) of a
\* c that is not the root, has no parent and has a child, raise.
CascadingCallsThrow ==
    LET v == lastOp'.self
        c == lastOp'.other
    IN  debug =>
          CASE lastOp'.op = "removeParent" ->
                   hasChildren(Heap, v) /\ RemoveParent(v, TRUE)
                       => RaisedNotPropagated(v)
            [] lastOp'.op = "addChild" ->
                   DisconnectedWithChildren(Heap, c) /\ AddChild(v, c, TRUE)
                       => RaisedNotPropagated(c)
            [] OTHER -> TRUE

\* C30: in a build that defines BITSTAR_DEBUG, a cascading update of a
\* vertex that is not the root, has no parent and has at least one child
\* raises and changes no other vertex's cost or depth; removeParent(true) of
\* a vertex that still has children and addChild(c, true) of such a c both
\* raise.
C30_DisconnectedCascadeThrows ==
    []CascadeFromDisconnectedThrows /\ [][CascadingCallsThrow]_vars

\* removeParent has cleared the parent of a vertex that lists a child with a
\* finite cost, has run the update on the vertex and has raised.
C30_Witness ==
    /\ debug
    /\ lastOp.op = "removeParent" /\ lastOp.res = "throw"
    /\ Len(lastOp.trace) = 1
    /\ DisconnectedWithChildren(Heap, lastOp.self)
    /\ \E c \in made :
          /\ Listed(lastOp.self, c) /\ parentSPtr_[c] = lastOp.self
          /\ cost_[c] # infiniteCost

\* The members the structural calls write.
LinkMembers == <<parentSPtr_, childWPtrs_, edgeCost_, cost_, depth_>>

\* C31: whenever addParent, removeParent, addChild or removeChild, with or
\* without the cascading update it runs, raises, no vertex's parent, child
\* list, edge cost, cost or depth differs from its value before the call.
C31_RaiseKeepsMembers ==
    [][(/\ calls' = calls + 1
        /\ lastOp'.op \in {"addParent", "removeParent", "addChild",
                           "removeChild"}
        /\ lastOp'.res = "throw")
       => UNCHANGED LinkMembers]_vars

\* addParent and removeParent write no child list; addChild and removeChild
\* write no parent pointer and no edge cost.
OneDirection ==
    calls' = calls + 1 =>
        /\ lastOp'.op \in {"addParent", "removeParent"} =>
              childWPtrs_' = childWPtrs_
        /\ lastOp'.op \in {"addChild", "removeChild"} =>
              parentSPtr_' = parentSPtr_ /\ edgeCost_' = edgeCost_

\* c is not the root and holds the cost of its parent combined with its
\* edge cost.
CostUpToDate(c) ==
    /\ ~isRoot(c) /\ hasParent(Heap, c)
    /\ cost_[c] = combineCosts(cost_[parentSPtr_[c]], edgeCost_[c])

\* C32 as stated: each structural mutator changes one direction of the link
\* only, and after removeChild the child keeps its cost.
C32_Original ==
    [][/\ OneDirection
       /\ (calls' = calls + 1 /\ lastOp'.op = "removeChild")
             => cost_'[lastOp'.other] = cost_[lastOp'.other]]_vars

\* C32: addParent and removeParent leave every child list unchanged, and
\* addChild and removeChild leave every parent pointer and edge cost
\* unchanged; after removeChild the child keeps its cost when the cascade
\* is disabled or when its cost was up to date with its parent's.
C32_OneDirection ==
    [][/\ OneDirection
       /\ (/\ calls' = calls + 1 /\ lastOp'.op = "removeChild"
           /\ \/ RemoveChild(lastOp'.self, lastOp'.other, FALSE)
              \/ CostUpToDate(lastOp'.other))
             => cost_'[lastOp'.other] = cost_[lastOp'.other]]_vars

\* removeChild with the cascade has taken a child with a finite cost off the
\* list of its parent: the child still has the parent and the cost.
C32_Witness ==
    /\ lastOp.op = "removeChild" /\ lastOp.res = "ok"
    /\ Len(lastOp.trace) >= 1
    /\ parentSPtr_[lastOp.other] = lastOp.self
    /\ ~Listed(lastOp.self, lastOp.other)
    /\ cost_[lastOp.other] # infiniteCost

\* The stated precondition of v.addParent(p, e): v is not pruned, is not
\* the root and has no parent, and p is not pruned.
AddParentStated(v, p) ==
    /\ v \in made /\ p \in made
    /\ ~isPruned_[v] /\ ~isRoot(v) /\ ~hasParent(Heap, v)
    /\ ~isPruned_[p]

Disconnected(p) == ~isRoot(p) /\ ~hasParent(Heap, p)

\* C33 as stated: under its precondition addParent completes without
\* raising, and with a disconnected p it leaves v with an infinite cost.
C33_Original ==
    [][\A e \in EdgeCosts, casc \in BOOLEAN :
          LET v == lastOp'.self
              p == lastOp'.other
          IN  (/\ lastOp'.op = "addParent"
               /\ AddParentStated(v, p)
               /\ AddParent(v, p, e, casc))
              => /\ lastOp'.res = "ok"
                 /\ Disconnected(p) => cost_'[v] = infiniteCost]_vars

\* C33: under its precondition, addParent on a vertex without children, or
\* with the cascade disabled, completes without raising when p is the root,
\* has a parent or is v itself, and in a build without BITSTAR_DEBUG also
\* when p is disconnected; whenever it completes with a disconnected p the
\* cost of v is infinite; in a build with BITSTAR_DEBUG it raises when p is
\* a disconnected vertex other than v.
C33_AddParentTotal ==
    [][\A e \in EdgeCosts, casc \in BOOLEAN :
          LET v == lastOp'.self
              p == lastOp'.other
          IN  (/\ lastOp'.op = "addParent"
               /\ AddParentStated(v, p)
               /\ ~casc \/ ~hasChildren(Heap, v)
               /\ AddParent(v, p, e, casc))
              => /\ (~debug \/ ~Disconnected(p) \/ p = v)
                       => lastOp'.res = "ok"
                 /\ (lastOp'.res = "ok" /\ Disconnected(p))
                       => cost_'[v] = infiniteCost
                 /\ (debug /\ Disconnected(p) /\ p # v)
                       => lastOp'.res = "throw"]_vars

\* Without BITSTAR_DEBUG addParent has given a vertex a disconnected parent
\* and has returned: the vertex has the parent and an infinite cost.
C33_Witness ==
    /\ ~debug
    /\ lastOp.op = "addParent" /\ lastOp.res = "ok"
    /\ lastOp.self # lastOp.other
    /\ parentSPtr_[lastOp.self] = lastOp.other
    /\ Disconnected(lastOp.other)
    /\ ~isPruned_[lastOp.self] /\ ~isPruned_[lastOp.other]
    /\ cost_[lastOp.self] = infiniteCost

\* Below v the child lists lead from some vertex back to itself.
CycleBelow(v) ==
    \E w \in Descendants(v) \cup {v} : w \in Descendants(w)

\* updateCostAndDepth(true) on v, from the members as they are.
CascadeFrom(v) == updateCostAndDepth(Outcome(Heap, "ok", << >>), v, TRUE, << >>)

\* C34 as stated: in every structure the four mutators can build, the
\* cascading update of every vertex comes to an end.
C34_Original ==
    \A v \in made : CascadeFrom(v).res # "overflow"

\* C34: the cascading update of a vertex comes to an end, by returning or
\* by raising, whenever the child lists below the vertex lead from no
\* vertex back to itself; the update that does not end runs on such a
\* cycle, and without BITSTAR_DEBUG every update on a cycle never ends.
C34_CascadeTerminates ==
    \A v \in made :
        /\ ~CycleBelow(v) =>
              /\ CascadeFrom(v).res \in {"ok", "throw"}
              /\ Len(CascadeFrom(v).trace) >= 1
        /\ CascadeFrom(v).res = "overflow" => CycleBelow(v)
        /\ (~debug /\ CycleBelow(v)) => CascadeFrom(v).res = "overflow"

\* A cascade has run from a vertex through a child and has returned, and
\* no child list below the vertex leads back.
C34_Witness ==
    /\ lastOp.res = "ok" /\ Len(lastOp.trace) >= 2
    /\ \E v \in made :
          /\ lastOp.trace[1].v = v
          /\ hasChildren(Heap, v)
          /\ ~CycleBelow(v)
          /\ CascadeFrom(v).res = "ok"

\* markPruned and markUnpruned write the pruned flag of their vertex and
\* nothing else.
PrunedFlagOnly ==
    (calls' = calls + 1 /\ lastOp'.op \in {"markPruned", "markUnpruned"})
        => /\ UNCHANGED <<vId_, isRoot_, parentSPtr_, childWPtrs_, edgeCost_,
                          cost_, depth_>>
           /\ UNCHANGED flagVars
           /\ \A w \in made \ {lastOp'.self} : isPruned_'[w] = isPruned_[w]

\* markPruned and then markUnpruned on a vertex that was not pruned: both
\* return and the members are the ones before the two calls.
RoundTrip ==
    \A v \in made :
        ~isPruned_[v] =>
            LET r1 == markPruned(Heap, v)
                r2 == markUnpruned(r1.h, v)
            IN  /\ r1.res = "ok" /\ r1.h.pruned[v]
                /\ r2.res = "ok" /\ r2.h = Heap

\* After markUnpruned the vertex is not pruned and no call on it raises for
\* its being pruned.
UsableAgain ==
    lastOp.op = "markUnpruned" =>
        /\ lastOp.res = "ok"
        /\ ~isPruned_[lastOp.self]
        /\ ~assertNotPruned(Heap, lastOp.self)
        /\ ~getIdThrows(Heap, lastOp.self)
        /\ ~getCostThrows(Heap, lastOp.self)

RoundTripUsable == RoundTrip /\ UsableAgain

\* C35: markPruned followed by markUnpruned changes the pruned flag only: the
\* id, parent, child list, edge cost, cost, depth and the isNew and expanded
\* flags of the vertex equal their values before markPruned, and afterwards
\* no operation raises for the vertex being pruned.
C35_PruneRoundTrip ==
    []RoundTripUsable /\ [][PrunedFlagOnly]_vars

\* markUnpruned has returned on a vertex that has a finite cost and a flag
\* that is not as the constructor left it.
C35_Witness ==
    /\ lastOp.op = "markUnpruned" /\ lastOp.res = "ok"
    /\ ~isPruned_[lastOp.self]
    /\ cost_[lastOp.self] # infiniteCost
    /\ \/ isNew_[lastOp.self] # InitialNew
       \/ hasBeenExpandedToSamples_[lastOp.self] # InitialExpanded
       \/ hasBeenExpandedToVertices_[lastOp.self] # InitialExpanded

\* areStatesValid accepts the state against every obstacle stored under the
\* key of the query.
EveryEntryAccepts ==
    \A i \in 1..Len(StoredUnder(lastQuery.key)) :
        areStatesValid(lastQuery.state, StoredUnder(lastQuery.key)[i])

\* What the last query answered, on the map it was put to.
QueryAnswer ==
    lastQuery.asked =>
        /\ lastQuery.key = Nearest(lastQuery.time)
        /\ lastQuery.result =
              (isValidState(lastQuery.state) /\ EveryEntryAccepts)
        /\ StoredUnder(lastQuery.key) = << >> =>
              lastQuery.result = isValidState(lastQuery.state)
        /\ ~isValidState(lastQuery.state) =>
              ~lastQuery.result /\ lastQuery.consulted = << >>

\* A query leaves the map of obstacles as it was.
QueryKeepsMap ==
    (lastQuery'.asked /\ lastQuery' # lastQuery) =>
        dynObstacles_' = dynObstacles_

\* C36: isValid(state, time) equals isValid(state) and every entry stored
\* under the key of the time satisfying areStatesValid(state, entry); it
\* equals isValid(state) when the map is empty or holds nothing under the
\* key, it is never true for a state isValid(state) rejects, areStatesValid
\* is not consulted for such a state, and the call leaves the map unchanged.
C36_ValidIffStaticAndEntries ==
    []QueryAnswer /\ [][QueryKeepsMap]_vars

\* A state isValid(state) rejects was put to the checker at a time under
\* whose key an obstacle is stored that areStatesValid would reject too: the
\* answer is FALSE and areStatesValid was not consulted.
C36_Witness ==
    /\ lastQuery.asked /\ ~lastQuery.result
    /\ ~isValidState(lastQuery.state)
    /\ lastQuery.consulted = << >>
    /\ StoredUnder(lastQuery.key) # << >>
    /\ ~EveryEntryAccepts

\* The obstacles the map holds, and how often freeState has been called on
\* a state through a space information.
StoredObstacles ==
    {o \in Obstacles : EntriesOf(dynObstacles_, o) # {}}
FreedCount(c) == IF c \in DOMAIN freed THEN freed[c] ELSE 0

\* The call of freeState that frees the state of obstacle o through the
\* space information stored with it.
PairedCall(o) == [si |-> Pair(o).first, state |-> Pair(o).second]

\* With an empty map isValid(state, time) is isValid(state) at every time.
StaticOnly(dyn) ==
    \A s \in States, time \in Times :
        isValid(dyn, s, time).result = isValidState(s)

TypeOK ==
    /\ debug \in BOOLEAN
    /\ made \subseteq Vertices
    /\ \A v \in Vertices :
        /\ parentSPtr_[v] \in made \cup {NoVertex}
        /\ cost_[v] \in (0..MaxCost) \cup {infiniteCost}
        /\ depth_[v] \in 0..MaxDepth
====
